---- MODULE Spec2Model ----
(***************************************************************************)
(* Request-execution core of the Augment/OpenAI gateway: the client pool,  *)
(* the retry wrapper, the stream translator and the per-request handler.   *)
(* The repository carries three builds of the core, which differ in the    *)
(* places marked below:                                                    *)
(*   "standalone"  src/unnamed/part_001 (lines 1-2022), workspace-keyed    *)
(*   "legacy"      src/src/server.ts, model-keyed, no abort race           *)
(*   "plugin"      src/unnamed/part_003, the embedded server               *)
(***************************************************************************)
EXTENDS Integers, Sequences, FiniteSets, TLC

\* ------------------------------------------------------------- bounds
NumReq == 2          \* request slots whose whole course is modelled
AttemptCap == 1      \* retries modelled per request (the code allows maxRetries)
MaxEvents == 4       \* upstream events delivered to one request
MaxSignals == 2      \* shutdown signals that may start a shutdown run
MaxPatterns == 2     \* classifier substrings present in one error message
HandlerEvents == 2   \* upstream events delivered in the handler specification
ToolEventsMax == 2   \* tool-call events delivered to one request
MaxAttempt == 9      \* attempt numbers handed to calculateRetryDelay: 0..9
RandomSteps == 16    \* Math.random() returns k / RandomSteps, 0 <= k < RandomSteps
NumCallers == 3      \* concurrent calls of ensureServer
MaxStarts == 3       \* startEmbeddedServer calls in one run, at most
MaxMessages == 2     \* elements of the messages array of a validated body

\* ---------------------------------------------------- program constants
POOL_SIZE == 5

Variants == {"standalone", "legacy", "plugin"}

maxRetries(v) == IF v = "standalone" THEN 30 ELSE 3

\* RETRY_CONFIG; jitterFactor 0.1 is jitterFactorNum / jitterFactorDen.
initialDelayMs(v) == IF v = "standalone" THEN 5000 ELSE 1000
maxDelayMs(v) == IF v = "standalone" THEN 600000 ELSE 30000
backoffMultiplier == 2
jitterFactorNum == 1
jitterFactorDen == 10

RECURSIVE Pow(_, _)
Pow(b, n) == IF n = 0 THEN 1 ELSE b * Pow(b, n - 1)
Min(a, b) == IF a <= b THEN a ELSE b

\* const baseDelay = Math.min(initialDelayMs * backoffMultiplier^attempt,
\* maxDelayMs).
baseDelay(v, attempt) ==
    Min(initialDelayMs(v) * Pow(backoffMultiplier, attempt), maxDelayMs(v))

\* calculateRetryDelay without the cap of maxDelayMs.
calculateRetryDelayUncapped(v, attempt, k) ==
    LET b == initialDelayMs(v) * Pow(backoffMultiplier, attempt) IN
    (b * (jitterFactorDen * RandomSteps + jitterFactorNum * (2 * k - RandomSteps)))
       \div (jitterFactorDen * RandomSteps)

\* calculateRetryDelay, with Math.random() = k / RandomSteps:
\* Math.floor(baseDelay + baseDelay * jitterFactor * (Math.random() * 2 - 1)).
calculateRetryDelay(v, attempt, k) ==
    LET b == baseDelay(v, attempt) IN
    (b * (jitterFactorDen * RandomSteps + jitterFactorNum * (2 * k - RandomSteps)))
       \div (jitterFactorDen * RandomSteps)

Reqs == 1..NumReq
NoClient == 0
\* The handle created by request r on its attempt a (fresh on every create).
ClientOf(r, a) == (r - 1) * (AttemptCap + 1) + a + 1
OwnClients == 1..(NumReq * (AttemptCap + 1))
\* Clients checked out, before the modelled window opens, by requests whose
\* prompts outlast it (a prompt may run for hours).
PinnedClients(n) == {NumReq * (AttemptCap + 1) + i : i \in 1..n}
Clients == OwnClients \cup PinnedClients(POOL_SIZE)

\* ------------------------------------------------------------- errors
\* An Error is the set of the substrings of interest its lower-cased message
\* contains, its statusCode (0: none) and its name.
ErrAborted == [msg |-> {"request aborted"}, statusCode |-> 0, name |-> "Error"]
ErrSession == [msg |-> {"websocket"}, statusCode |-> 0, name |-> "Error"]
ErrTimeout == [msg |-> {"timeout"}, statusCode |-> 0, name |-> "Error"]
ErrGeneric == [msg |-> {}, statusCode |-> 0, name |-> "Error"]
\* The TypeError of reading .role of a null message in
\* extractWorkspaceFromMessages / formatMessages.
ErrNullMessage == [msg |-> {}, statusCode |-> 0, name |-> "TypeError"]
\* parseBody rejects with new Error('Invalid JSON').
ErrInvalidJson == [msg |-> {"invalid"}, statusCode |-> 0, name |-> "Error"]
ErrContextSession == [msg |-> {"context length", "websocket"}, statusCode |-> 0,
                      name |-> "Error"]
UpstreamErrors == {ErrSession, ErrTimeout, ErrGeneric, ErrContextSession}

\* The substrings the classifiers look for, and the messages of the
\* classifier runs: up to MaxPatterns of them, with the substrings that come
\* along with a longer one.
Patterns ==
    {"rate limit", "rate_limit", "too many requests", "quota exceeded",
     "throttl", "context length", "context_length", "token limit", "too long",
     "maximum context", "message too large", "input too long",
     "exceeds the model", "max_tokens", "not connected", "no session",
     "initialization failed", "session expired", "session invalid",
     "websocket", "disconnected", "network", "timeout", "timed out",
     "econnreset", "econnrefused", "socket hang up", "connection",
     "temporarily unavailable", "service unavailable",
     "internal server error", "unauthorized", "invalid api key", "model",
     "not found", "invalid", "enotfound", "request aborted"}
Contained(S) ==
    S \cup (IF "input too long" \in S THEN {"too long"} ELSE {})
      \cup (IF "invalid api key" \in S THEN {"invalid"} ELSE {})
RECURSIVE UpTo(_)
UpTo(n) ==
    IF n = 0 THEN {{}}
    ELSE UpTo(n - 1) \cup {S \cup {p} : S \in UpTo(n - 1), p \in Patterns}
Messages == {Contained(S) : S \in UpTo(MaxPatterns)}
StatusCodes == {0, 400, 429, 500, 599, 600}
Errors ==
    [msg : Messages, statusCode : StatusCodes, name : {"Error", "AbortError"}]
\* The errors the operation under withRetry fails with.
ErrRateLimit == [msg |-> {}, statusCode |-> 429, name |-> "Error"]
OperationErrors == UpstreamErrors \cup {ErrRateLimit}

Has(e, subs) == e.msg \cap subs # {}

isRateLimitError(e) ==
    \/ e.statusCode = 429
    \/ Has(e, {"rate limit", "rate_limit", "too many requests",
               "quota exceeded", "throttl"})

isContextLengthError(e) ==
    Has(e, {"context length", "context_length", "token limit", "too long",
            "maximum context", "message too large", "input too long",
            "exceeds the model", "max_tokens"})

isSessionError(v, e) ==
    IF v = "plugin"
    THEN Has(e, {"not connected", "no session", "websocket", "disconnected"})
    ELSE Has(e, {"not connected", "no session", "initialization failed",
                 "session expired", "session invalid", "websocket",
                 "disconnected"})

\* isTransientError that leaves the session errors out.
isTransientErrorNoSession(v, e) ==
    \/ (e.statusCode >= 500 /\ e.statusCode < 600)
    \/ Has(e, {"network", "timeout", "timed out", "econnreset", "econnrefused",
               "socket hang up", "connection", "temporarily unavailable",
               "service unavailable", "internal server error"})

isTransientError(v, e) ==
    \/ (e.statusCode >= 500 /\ e.statusCode < 600)
    \/ isSessionError(v, e)
    \/ Has(e, {"network", "timeout", "timed out", "econnreset", "econnrefused",
               "socket hang up", "connection", "temporarily unavailable",
               "service unavailable", "internal server error"})

isRetryableError(v, e) ==
    IF v = "plugin"
    THEN IF Has(e, {"context length", "token limit", "too long"}) THEN FALSE
         ELSE \/ Has(e, {"rate limit", "too many requests", "timeout",
                         "econnreset", "socket hang up", "not connected",
                         "no session", "websocket"})
              \/ e.statusCode >= 500
    ELSE IF isContextLengthError(e) THEN FALSE
         ELSE isRateLimitError(e) \/ isTransientError(v, e)

\* createOpenAIError that asks about the rate limit before the context length
\* and knows no other kind.
createOpenAIErrorRateFirst(v, e) ==
    IF isRateLimitError(e)
    THEN [type |-> "rate_limit_error", code |-> "rate_limit_exceeded",
          param |-> "null", label |-> "Rate limit exceeded"]
    ELSE IF isContextLengthError(e)
    THEN [type |-> "invalid_request_error", code |-> "context_length_exceeded",
          param |-> "messages", label |-> "Context length exceeded"]
    ELSE [type |-> "api_error", code |-> "null", param |-> "null", label |-> ""]

\* createOpenAIError (standalone and legacy builds): the first branch that
\* matches; label is the prefix put before the message.
createOpenAIError(v, e) ==
    IF isContextLengthError(e)
    THEN [type |-> "invalid_request_error", code |-> "context_length_exceeded",
          param |-> "messages", label |-> "Context length exceeded"]
    ELSE IF isRateLimitError(e)
    THEN [type |-> "rate_limit_error", code |-> "rate_limit_exceeded",
          param |-> "null", label |-> "Rate limit exceeded"]
    ELSE IF isSessionError(v, e)
    THEN [type |-> "server_error", code |-> "connection_error",
          param |-> "null", label |-> "SDK session error"]
    ELSE IF isTransientError(v, e)
    THEN [type |-> "server_error", code |-> "server_error",
          param |-> "null", label |-> "Server error"]
    ELSE IF Has(e, {"unauthorized", "invalid api key"})
    THEN [type |-> "invalid_request_error", code |-> "invalid_api_key",
          param |-> "null", label |-> "Authentication failed"]
    ELSE IF Has(e, {"model"}) /\ Has(e, {"not found", "invalid"})
    THEN [type |-> "invalid_request_error", code |-> "model_not_found",
          param |-> "model", label |-> "Invalid model"]
    ELSE IF Has(e, {"timeout", "timed out"}) \/ e.name = "AbortError"
    THEN [type |-> "server_error", code |-> "request_timeout",
          param |-> "null", label |-> "Request timeout"]
    ELSE IF Has(e, {"econnrefused", "enotfound", "network"})
    THEN [type |-> "server_error", code |-> "connection_error",
          param |-> "null", label |-> "Connection error"]
    ELSE [type |-> "api_error", code |-> "null", param |-> "null", label |-> ""]

\* classifyError (plugin build): the HTTP status and the envelope.
classifyError(e) ==
    IF Has(e, {"context length", "token limit"})
    THEN [status |-> 400, type |-> "invalid_request_error",
          code |-> "context_length_exceeded", param |-> "null",
          label |-> "Context length exceeded"]
    ELSE IF Has(e, {"rate limit", "too many requests"})
    THEN [status |-> 429, type |-> "rate_limit_error",
          code |-> "rate_limit_exceeded", param |-> "null",
          label |-> "Rate limit exceeded"]
    ELSE [status |-> 500, type |-> "server_error", code |-> "null",
          param |-> "null", label |-> ""]

\* withRetry that stops one attempt early.
withRetryCatchOneShort(v, n, e) ==
    IF ~isRetryableError(v, e) THEN "throw"
    ELSE IF n + 1 >= maxRetries(v) THEN "throw"
    ELSE "sleep"

\* withRetry that does not ask the classifier.
withRetryCatchNoClassifier(v, n, e) ==
    IF n = maxRetries(v) THEN "throw" ELSE "sleep"

\* The catch block of withRetry on attempt n: rethrow, or sleep and go on.
withRetryCatch(v, n, e) ==
    IF ~isRetryableError(v, e) THEN "throw"
    ELSE IF n = maxRetries(v) THEN "throw"
    ELSE "sleep"

\* ---------------------------------------------------------- client pool
NoPool == [exists |-> FALSE, available |-> <<>>, inUse |-> {}, creating |-> 0]
EmptyPool == [exists |-> TRUE, available |-> <<>>, inUse |-> {}, creating |-> 0]

Front(s) == SubSeq(s, 1, Len(s) - 1)
Last(s) == s[Len(s)]
Range(s) == {s[i] : i \in DOMAIN s}

\* getAuggieClient with an off-by-one capacity check.
getAuggieClientOffByOne(ps, k) ==
    LET pool == IF ps[k].exists THEN ps[k] ELSE EmptyPool IN
    IF Len(pool.available) > 0
    THEN [path |-> "reuse", client |-> Last(pool.available),
          pools |-> [ps EXCEPT ![k] =
                       [pool EXCEPT !.available = Front(pool.available),
                                    !.inUse = pool.inUse \cup {Last(pool.available)}]]]
    ELSE IF Cardinality(pool.inUse) + pool.creating <= POOL_SIZE
    THEN [path |-> "create", client |-> NoClient,
          pools |-> [ps EXCEPT ![k] = [pool EXCEPT !.creating = pool.creating + 1]]]
    ELSE [path |-> "temp", client |-> NoClient, pools |-> [ps EXCEPT ![k] = pool]]

\* getAuggieClient whose capacity check forgets the clients under creation.
getAuggieClientIgnoreCreating(ps, k) ==
    LET pool == IF ps[k].exists THEN ps[k] ELSE EmptyPool IN
    IF Len(pool.available) > 0
    THEN [path |-> "reuse", client |-> Last(pool.available),
          pools |-> [ps EXCEPT ![k] =
                       [pool EXCEPT !.available = Front(pool.available),
                                    !.inUse = pool.inUse \cup {Last(pool.available)}]]]
    ELSE IF Cardinality(pool.inUse) < POOL_SIZE
    THEN [path |-> "create", client |-> NoClient,
          pools |-> [ps EXCEPT ![k] = [pool EXCEPT !.creating = pool.creating + 1]]]
    ELSE [path |-> "temp", client |-> NoClient, pools |-> [ps EXCEPT ![k] = pool]]

\* getAuggieClient that reads the last available client without popping it.
getAuggieClientNoPop(ps, k) ==
    LET pool == IF ps[k].exists THEN ps[k] ELSE EmptyPool IN
    IF Len(pool.available) > 0
    THEN [path |-> "reuse", client |-> Last(pool.available),
          pools |-> [ps EXCEPT ![k] =
                       [pool EXCEPT !.inUse = pool.inUse \cup {Last(pool.available)}]]]
    ELSE IF Cardinality(pool.inUse) + pool.creating < POOL_SIZE
    THEN [path |-> "create", client |-> NoClient,
          pools |-> [ps EXCEPT ![k] = [pool EXCEPT !.creating = pool.creating + 1]]]
    ELSE [path |-> "temp", client |-> NoClient, pools |-> [ps EXCEPT ![k] = pool]]

\* getAuggieClient up to its first suspension: reuse an available client,
\* reserve a creation slot, or fall through to a temporary client.
getAuggieClient(ps, k) ==
    LET pool == IF ps[k].exists THEN ps[k] ELSE EmptyPool IN
    IF Len(pool.available) > 0
    THEN [path |-> "reuse", client |-> Last(pool.available),
          pools |-> [ps EXCEPT ![k] =
                       [pool EXCEPT !.available = Front(pool.available),
                                    !.inUse = pool.inUse \cup {Last(pool.available)}]]]
    ELSE IF Cardinality(pool.inUse) + pool.creating < POOL_SIZE
    THEN [path |-> "create", client |-> NoClient,
          pools |-> [ps EXCEPT ![k] = [pool EXCEPT !.creating = pool.creating + 1]]]
    ELSE [path |-> "temp", client |-> NoClient, pools |-> [ps EXCEPT ![k] = pool]]

\* getAuggieClient after createAuggieClient resolved: the slot becomes a
\* checked-out client.
createResolved(ps, k, c) ==
    [ps EXCEPT ![k] = [@ EXCEPT !.creating = @ - 1, !.inUse = @ \cup {c}]]

\* A catch block that rethrows without giving the slot back.
createRejectedKeep(ps, k) == ps

\* getAuggieClient after createAuggieClient rejected: the slot is given back.
createRejected(ps, k) ==
    [ps EXCEPT ![k] = [@ EXCEPT !.creating = @ - 1]]

\* releaseAuggieClient that leaves the client checked out.
releaseAuggieClientKeep(ps, k, c) == [pools |-> ps, closed |-> FALSE]

\* releaseAuggieClient: the new pool table and whether close() was called.
releaseAuggieClient(ps, k, c) ==
    IF ~ps[k].exists THEN [pools |-> ps, closed |-> FALSE]
    ELSE IF c \in ps[k].inUse
    THEN IF Len(ps[k].available) < POOL_SIZE
         THEN [pools |-> [ps EXCEPT ![k] = [@ EXCEPT !.inUse = @ \ {c},
                                                   !.available = Append(@, c)]],
               closed |-> FALSE]
         ELSE [pools |-> [ps EXCEPT ![k] = [@ EXCEPT !.inUse = @ \ {c}]],
               closed |-> TRUE]
    ELSE [pools |-> ps, closed |-> FALSE]

\* discardAuggieClient: the standalone and legacy builds return early when the
\* pool entry is missing; the plugin build closes the client regardless.
discardAuggieClient(v, ps, k, c) ==
    IF ~ps[k].exists
    THEN [pools |-> ps, closed |-> (v = "plugin")]
    ELSE [pools |-> [ps EXCEPT ![k] = [@ EXCEPT !.inUse = @ \ {c}]],
          closed |-> TRUE]

\* A finally block that discards on abort only.
shouldDiscardAbortOnly(v, e) == v # "legacy" /\ e.msg = ErrAborted.msg

\* The finally block of the call functions: TRUE when the client is discarded.
\* The legacy build knows no abort.
shouldDiscard(v, e) ==
    IF v = "legacy" THEN isSessionError(v, e)
    ELSE e.msg = ErrAborted.msg \/ isSessionError(v, e)

\* callAugmentAPIStreaming / callStreaming: is the streaming call wrapped in
\* withRetry?
streamingUsesRetry(v) == v # "standalone"

\* ------------------------------------------------------ stream translator
\* A text is a sequence of characters; <<>> is the empty string.
ThoughtTexts == {<<>>, <<"a">>, <<"b">>}
MessageTexts == {<<>>, <<"c">>}
OtherKinds == {"user_message_chunk", "tool_call", "tool_call_update", "plan",
               "available_commands_update", "current_mode_update", "unknown"}
Event(kind, text) == [sessionUpdate |-> kind, text |-> text]
AllEvents == {Event("agent_thought_chunk", t) : t \in ThoughtTexts}
                 \cup {Event("agent_message_chunk", t) : t \in MessageTexts}
                 \cup {Event(k, <<>>) : k \in OtherKinds}

\* An SSE write: its kind, its delta text and whether its id is the
\* per-request chunk id ("req") or a fresh random one ("rand").
Chunk(kind, text, id) == [kind |-> kind, text |-> text, id |-> id]

RECURSIVE Join(_)
Join(ts) == IF ts = <<>> THEN <<>> ELSE Head(ts) \o Join(Tail(ts))

\* State created by createStreamCallback (the buffer and the two flags exist
\* in the plugin build only).
NewTranslator == [reasoningBuffer |-> <<>>, hasStartedTextContent |-> FALSE,
                  hasFlushedReasoning |-> FALSE]

\* flushReasoningBuffer that writes one chunk per buffered fragment.
flushReasoningBufferSplit(st) ==
    IF st.hasFlushedReasoning \/ st.reasoningBuffer = <<>>
    THEN [st |-> st, writes |-> <<>>]
    ELSE [st |-> [st EXCEPT !.hasFlushedReasoning = TRUE, !.reasoningBuffer = <<>>],
          writes |-> [i \in 1..Len(st.reasoningBuffer) |->
                        Chunk("reasoning", st.reasoningBuffer[i], "req")]]

\* flushReasoningBuffer (plugin build): the new state and the chunks written.
flushReasoningBuffer(st) ==
    IF st.hasFlushedReasoning \/ st.reasoningBuffer = <<>>
    THEN [st |-> st, writes |-> <<>>]
    ELSE [st |-> [st EXCEPT !.hasFlushedReasoning = TRUE, !.reasoningBuffer = <<>>],
          writes |-> <<Chunk("reasoning", Join(st.reasoningBuffer), "req")>>]

\* A plugin callback that ignores thoughts arriving after the first text.
pluginCallbackDropLate(st, ev) ==
    IF ev.sessionUpdate = "agent_message_chunk" /\ ev.text # <<>>
    THEN LET f == IF ~st.hasStartedTextContent
                  THEN flushReasoningBuffer(
                           [st EXCEPT !.hasStartedTextContent = TRUE])
                  ELSE [st |-> st, writes |-> <<>>]
         IN [st |-> f.st,
             writes |-> Append(f.writes, Chunk("content", ev.text, "req"))]
    ELSE IF ev.sessionUpdate = "agent_thought_chunk" /\ ev.text # <<>>
              /\ ~st.hasStartedTextContent
    THEN [st |-> [st EXCEPT !.reasoningBuffer = Append(@, ev.text)],
          writes |-> <<>>]
    ELSE [st |-> st, writes |-> <<>>]

\* The callback of createStreamCallback in the plugin build.
pluginCallback(st, ev) ==
    IF ev.sessionUpdate = "agent_message_chunk" /\ ev.text # <<>>
    THEN LET f == IF ~st.hasStartedTextContent
                  THEN flushReasoningBuffer(
                           [st EXCEPT !.hasStartedTextContent = TRUE])
                  ELSE [st |-> st, writes |-> <<>>]
         IN [st |-> f.st,
             writes |-> Append(f.writes, Chunk("content", ev.text, "req"))]
    ELSE IF ev.sessionUpdate = "agent_thought_chunk" /\ ev.text # <<>>
    THEN IF ~st.hasStartedTextContent
         THEN [st |-> [st EXCEPT !.reasoningBuffer = Append(@, ev.text)],
               writes |-> <<>>]
         ELSE [st |-> st,
               writes |-> <<Chunk("reasoning", ev.text, "req")>>]
    ELSE [st |-> st, writes |-> <<>>]

\* The callback of createStreamCallback in the standalone build: text and
\* thoughts are written as they arrive, everything else is logged only.
standaloneCallback(st, ev) ==
    IF ev.sessionUpdate = "agent_message_chunk" /\ ev.text # <<>>
    THEN [st |-> st, writes |-> <<Chunk("content", ev.text, "req")>>]
    ELSE IF ev.sessionUpdate = "agent_thought_chunk" /\ ev.text # <<>>
    THEN [st |-> st, writes |-> <<Chunk("reasoning", ev.text, "req")>>]
    ELSE [st |-> st, writes |-> <<>>]

\* The callback of createStreamCallback in the legacy build: content goes
\* through createStreamChunk (a fresh id per chunk), and tool, plan, command
\* and mode events are forwarded as chunks of their own.
legacyCallback(st, ev) ==
    IF ev.sessionUpdate = "agent_message_chunk"
    THEN IF ev.text # <<>>
         THEN [st |-> st, writes |-> <<Chunk("content", ev.text, "rand")>>]
         ELSE [st |-> st, writes |-> <<>>]
    ELSE IF ev.sessionUpdate = "agent_thought_chunk"
    THEN IF ev.text # <<>>
         THEN [st |-> st, writes |-> <<Chunk("reasoning", ev.text, "req")>>]
         ELSE [st |-> st, writes |-> <<>>]
    ELSE IF ev.sessionUpdate \in {"tool_call", "tool_call_update"}
    THEN [st |-> st, writes |-> <<Chunk("tool_calls", <<>>, "req")>>]
    ELSE IF ev.sessionUpdate = "plan"
    THEN [st |-> st, writes |-> <<Chunk("plan", <<>>, "req")>>]
    ELSE IF ev.sessionUpdate = "available_commands_update"
    THEN [st |-> st, writes |-> <<Chunk("available_commands", <<>>, "req")>>]
    ELSE IF ev.sessionUpdate = "current_mode_update"
    THEN [st |-> st, writes |-> <<Chunk("current_mode", <<>>, "req")>>]
    ELSE [st |-> st, writes |-> <<>>]

createStreamCallback(v, st, ev) ==
    IF v = "plugin" THEN pluginCallback(st, ev)
    ELSE IF v = "standalone" THEN standaloneCallback(st, ev)
    ELSE legacyCallback(st, ev)

\* Session updates that carry a toolCallId, and the id the callback uses:
\* the event's, or a fresh random one (tool_call) or 'unknown'
\* (tool_call_update) when the event has none.
ToolIds == {"t1", "t2"}
ToolEvent(kind, id) == [sessionUpdate |-> kind, text |-> <<>>, toolCallId |-> id]
ToolEvents == {ToolEvent(k, id) : k \in {"tool_call", "tool_call_update"},
                                  id \in ToolIds}
toolIdOf(ev) == IF "toolCallId" \in DOMAIN ev THEN ev.toolCallId
                ELSE IF ev.sessionUpdate = "tool_call" THEN "random"
                ELSE "unknown"

\* toolCallIndices and toolCallCounter, empty.
NoTools == [indices |-> <<>>, counter |-> 0]

\* The first two statements of createStreamCallback (standalone and legacy
\* builds): toolCallIndices.clear(); toolCallCounter = 0.
resetToolCalls(v, t) == IF v = "plugin" THEN t ELSE NoTools

\* The tool_call and tool_call_update cases of the callback: the id gets the
\* next index unless it has one; used: the id and the index the case goes on
\* with (written in the chunk by the legacy build, logged by the standalone).
trackToolCall(v, t, ev) ==
    IF v = "plugin" \/ ev.sessionUpdate \notin {"tool_call", "tool_call_update"}
    THEN [tools |-> t, used |-> <<>>]
    ELSE LET id == toolIdOf(ev) IN
         IF id \in DOMAIN t.indices
         THEN [tools |-> t, used |-> <<[id |-> id, index |-> t.indices[id]]>>]
         ELSE [tools |-> [indices |-> IF id = "random" THEN t.indices
                                      ELSE (id :> t.counter) @@ t.indices,
                          counter |-> t.counter + 1],
               used |-> <<[id |-> id, index |-> t.counter]>>]

\* The final stop chunk written by handleChatCompletions (the legacy build
\* builds it with createStreamChunk, hence a fresh id).
stopChunk(v) == Chunk("stop", <<>>, IF v = "legacy" THEN "rand" ELSE "req")

\* ------------------------------------------------ request and response
\* A request body as parseBody and the validation read it: whether it parses,
\* what its messages, model and stream fields hold ("nullElement": an array
\* whose one element is null).
Body(parse, messages, model, strm) ==
    [parse |-> parse, messages |-> messages, model |-> model, stream |-> strm]
InvalidJson == Body("invalid", "absent", "absent", "absent")
Bodies == {InvalidJson} \cup
          {Body("json", m, mo, st) :
              m \in {"absent", "notArray", "empty", "nullElement", "noRole",
                     "badRole", "noContent", "badContent", "ok"},
              mo \in {"absent", "string", "number"},
              st \in {"absent", "true", "false", "string"}}

Invalid(code, param) == [valid |-> FALSE, type |-> "invalid_request_error",
                         code |-> code, param |-> param]
Valid == [valid |-> TRUE, type |-> "none", code |-> "none", param |-> "none"]

\* Validation that accepts every body.
validateChatCompletionRequestNone(v, b) == Valid

\* validateChatCompletionRequest, and the basic check the plugin build makes
\* in its place. The loop over the messages skips a null element
\* (if (!msg) continue).
validateChatCompletionRequest(v, b) ==
    IF v = "plugin"
    THEN IF b.messages \in {"absent", "notArray", "empty"}
         THEN Invalid("missing_required_parameter", "none")
         ELSE Valid
    ELSE IF b.messages = "absent"
    THEN Invalid("missing_required_parameter", "messages")
    ELSE IF b.messages = "notArray" THEN Invalid("invalid_type", "messages")
    ELSE IF b.messages = "empty" THEN Invalid("invalid_value", "messages")
    ELSE IF b.messages = "noRole"
    THEN Invalid("missing_required_parameter", "messages[i].role")
    ELSE IF b.messages = "badRole" THEN Invalid("invalid_value", "messages[i].role")
    ELSE IF b.messages = "noContent"
    THEN Invalid("missing_required_parameter", "messages[i].content")
    ELSE IF b.messages = "badContent"
    THEN Invalid("invalid_type", "messages[i].content")
    ELSE IF b.model = "number" THEN Invalid("invalid_type", "model")
    ELSE IF b.stream = "string" THEN Invalid("invalid_type", "stream")
    ELSE Valid

\* body.stream ?? false as the handler branches on it.
StreamOf(v, b) == b.stream = "true" \/ (v = "plugin" /\ b.stream = "string")

\* The body of a request before parseBody resolves, and the bodies of
\* well-formed requests: messages, a model name and a boolean stream.
NoBody == Body("none", "absent", "absent", "absent")
PlainBodies == {Body("json", "ok", "string", st) : st \in {"true", "false"}}


\* A string client.prompt resolves with: plain text, or JSON whose top level
\* is null, a scalar or an object; for an object, the type of its error field,
\* whether an error object has a message, and the patterns the text contains.
Response(shape, error, hasMessage, msg) ==
    [shape |-> shape, error |-> error, hasMessage |-> hasMessage, msg |-> msg]
PlainText == Response("text", "absent", FALSE, {})
NoResponse == Response("none", "absent", FALSE, {})
PayloadMessages == {{}, {"websocket"}, {"timeout"}, {"context length"}}
Responses ==
    {PlainText, Response("null", "absent", FALSE, {}),
     Response("scalar", "absent", FALSE, {})}
    \cup {Response("object", e, FALSE, {}) :
             e \in {"absent", "null", "number", "boolean", "object", "array"}}
    \cup {Response("object", "string", FALSE, m) : m \in PayloadMessages}
    \cup {Response("object", "object", TRUE, m) : m \in PayloadMessages}

\* isSDKErrorResponse that detects string error fields only.
isSDKErrorResponseStringOnly(rsp) ==
    IF rsp.shape = "object" /\ rsp.error = "string"
    THEN [isError |-> TRUE, msg |-> rsp.msg]
    ELSE [isError |-> FALSE, msg |-> {}]

\* isSDKErrorResponse: JSON.parse, then the error field is a string, or a
\* non-null object (message ?? String(errObj)); anything else, a parse
\* failure included, is no error.
isSDKErrorResponse(rsp) ==
    IF rsp.shape # "object" THEN [isError |-> FALSE, msg |-> {}]
    ELSE IF rsp.error = "string" THEN [isError |-> TRUE, msg |-> rsp.msg]
    ELSE IF rsp.error \in {"object", "array"}
    THEN [isError |-> TRUE, msg |-> IF rsp.hasMessage THEN rsp.msg ELSE {}]
    ELSE [isError |-> FALSE, msg |-> {}]

\* new Error(errorCheck.message ?? 'Unknown SDK error').
PayloadError(rsp) ==
    [msg |-> Contained(isSDKErrorResponse(rsp).msg), statusCode |-> 0,
     name |-> "Error"]

\* What the handler has written as its HTTP response: nothing, the SSE
\* headers, a completion, or an error body with its status. A field the body
\* does not have is "none"; suggestion tells whether the body has one.
Http(status, type, code, param, suggestion) ==
    [status |-> status, type |-> type, code |-> code, param |-> param,
     suggestion |-> suggestion]
NoHttp == Http(0, "none", "none", "none", FALSE)
SseHeaders == Http(200, "text/event-stream", "none", "none", FALSE)
Completion == Http(200, "chat.completion", "none", "none", FALSE)
ShuttingDown == Http(503, "server_error", "none", "none", FALSE)

\* The error response of the handler's outer catch block.
errorResponse(v, e) ==
    IF v = "plugin"
    THEN Http(classifyError(e).status, classifyError(e).type,
              classifyError(e).code, classifyError(e).param, FALSE)
    ELSE Http(IF isContextLengthError(e) THEN 400
              ELSE IF isRateLimitError(e) THEN 429 ELSE 500,
              createOpenAIError(v, e).type, createOpenAIError(v, e).code,
              createOpenAIError(v, e).param, TRUE)

\* The metrics object (standalone and legacy builds).
NoMetrics == [totalRequests |-> 0, activeRequests |-> 0,
              successfulRequests |-> 0, failedRequests |-> 0]

\* An entry of handleChatCompletions that forgets totalRequests.
trackRequestUncounted(v, m) ==
    IF v = "plugin" THEN m
    ELSE [m EXCEPT !.activeRequests = @ + 1]

\* The two increments at the entry of handleChatCompletions.
trackRequest(v, m) ==
    IF v = "plugin" THEN m
    ELSE [m EXCEPT !.totalRequests = @ + 1, !.activeRequests = @ + 1]

\* The counters of cleanup that skips the decrement for a failed request.
cleanupMetricsLeaky(v, m, success) ==
    IF v = "plugin" THEN m
    ELSE IF success
    THEN [m EXCEPT !.activeRequests = @ - 1, !.successfulRequests = @ + 1]
    ELSE [m EXCEPT !.failedRequests = @ + 1]

\* The counters of cleanup(success).
cleanupMetrics(v, m, success) ==
    IF v = "plugin" THEN m
    ELSE IF success
    THEN [m EXCEPT !.activeRequests = @ - 1, !.successfulRequests = @ + 1]
    ELSE [m EXCEPT !.activeRequests = @ - 1, !.failedRequests = @ + 1]

\* Whether the call functions race client.prompt against the abort signal.
racesAbortNever(v) == FALSE

racesAbort(v) == v # "legacy"

\* ------------------------------------------------------------------ state
VARIABLES
    variant,        \* which build runs
    slots,          \* request slots that may carry a request
    keys,           \* pool keys the requests address
    budget,         \* upstream events delivered per request, at most
    pools,          \* clientPools: pool key -> ClientPool
    closeCount,     \* client -> number of close() calls on it
    created,        \* clients returned by AuggieClass.create so far
    pc,             \* request -> position in handleChatCompletions
    stream,         \* request -> body.stream
    body,           \* request -> the body parseBody resolved with
    key,            \* request -> pool key of (model, workspaceRoot)
    attempt,        \* request -> withRetry's attempt counter
    held,           \* request -> client of the running attempt
    sink,           \* client -> request whose stream callback is installed on it
    aborted,        \* request -> abortController.signal.aborted
    destroyed,      \* request -> res.destroyed
    orphan,         \* request -> its pool object was deleted while it creates
    trans,          \* request -> state of its stream callback
    out,            \* request -> chunks written to res
    events,         \* request -> events delivered during the running prompt
    outBase,        \* request -> Len(out) when the running prompt started
    delivered,      \* request -> events delivered over all its prompts
    prompts,        \* request -> client.prompt calls made so far
    isShuttingDown, \* standalone, legacy: gracefulShutdown has begun
    shutdownRuns,   \* standalone, legacy: runs of gracefulShutdown past its guard
    exited,         \* standalone, legacy: process.exit was called
    closed,         \* plugin: the close() of startEmbeddedServer was called
    faulted,        \* clients whose prompt ended in a session fault or abort
    discarded,      \* clients handed to discardAuggieClient
    overflow,       \* clients minted by the pool-at-capacity path
    pinned,         \* clients held by requests that outlast the window
    alphabet,       \* session updates the upstream may deliver
    tools,          \* standalone, legacy: toolCallIndices and toolCallCounter
    toolLog,        \* request -> tool-call ids and indices its callback used
    bodies,         \* request bodies the callers may send
    responses,      \* strings client.prompt may resolve with
    resp,           \* request -> what the handler wrote as HTTP response
    response,       \* request -> the string its running prompt resolved with
    metrics,        \* standalone, legacy: the metrics counters
    sharedId,       \* the requests carry the same X-Request-ID header
    activeRequests, \* standalone, legacy: request id -> request of its controller
    pending,        \* request -> its client.prompt promise that lost the race
    retryRun,       \* one withRetry call: its loop state and what it did
    classified,     \* one error under the classifiers, and their answers
    delay,          \* one calculateRetryDelay call: its inputs and its result
    loader,         \* plugin loader: the embedded-server singleton and its callers
    checked         \* one validateChatCompletionRequest call: its body and result

poolVars == <<pools, closeCount, created>>
reqVars == <<pc, stream, key, body, attempt, held, sink, aborted, destroyed, orphan,
             trans, out, events, outBase, delivered, prompts, resp, response, toolLog>>
cfgVars == <<variant, slots, keys, budget, pinned, bodies, responses,
             alphabet, sharedId>>
srvVars == <<metrics, pending, activeRequests>>
downVars == <<isShuttingDown, shutdownRuns, exited, closed>>
histVars == <<faulted, discarded, overflow>>
pureVars == <<retryRun, classified, delay, loader, checked>>
vars == <<cfgVars, poolVars, reqVars, downVars, histVars, pureVars, srvVars,
          tools>>

Keys == {1, 2}
Terminal == {"completed", "failed", "aborted", "rejected", "invalid"}
Active(r) == pc[r] \notin Terminal \cup {"idle"}

\* The request id of handleChatCompletions: the X-Request-ID header of the
\* caller, or a fresh random one. In activeRequests, 0 stands for no entry.
requestId(r) == IF sharedId THEN 1 ELSE r
Running == ~exited

NoRetry == [state |-> "none", attempt |-> 0, calls |-> 0, sleeps |-> 0,
            last |-> ErrGeneric, thrown |-> ErrGeneric]
\* The plugin loader before any ensureServer call: embeddedServerPort and
\* serverStarting are null (0), no startEmbeddedServer promise exists.
Callers == 1..NumCallers
Starts == 1..MaxStarts
RecordedPort == MaxStarts + 1
NoLoader == [embeddedServerPort |-> 0, serverStarting |-> 0,
             alive |-> {},
             promise |-> [p \in Starts \cup {RecordedPort} |-> "none"],
             cpc |-> [c \in Callers |-> "idle"],
             awaited |-> [c \in Callers |-> 0],
             result |-> [c \in Callers |-> 0]]
NoDelay == [stage |-> "none", attempt |-> 0, random |-> 0, ms |-> 0]
NoClassified == [stage |-> "none", err |-> ErrGeneric, retryable |-> FALSE,
                 envelope |-> createOpenAIError("standalone", ErrGeneric),
                 status |-> 0]

\* The bodies handed to validateChatCompletionRequest, spelled out element
\* by element: messages is absent, a string or an array of up to MaxMessages
\* elements, each of them null or an object whose role is absent, a number,
\* an unknown string or 'user' and whose content is absent, null, a number or
\* a string; model is absent, a string or a number; stream is absent, a
\* boolean or a string.
RawBodies ==
    LET Elements == [null : {FALSE}, role : {"absent", "number", "unknown", "user"},
                     content : {"absent", "null", "number", "string"}]
                    \cup {[null |-> TRUE, role |-> "absent", content |-> "absent"]}
        Arrays == UNION {[1..n -> Elements] : n \in 0..MaxMessages}
    IN [messages : {"absent", "string"}, elements : {<<>>},
        model : {"absent", "string", "number"},
        stream : {"absent", "boolean", "string"}]
       \cup [messages : {"array"}, elements : Arrays,
             model : {"absent", "string", "number"},
             stream : {"absent", "boolean", "string"}]

\* validateChatCompletionRequest (standalone and legacy builds) on such a
\* body. param is the template `messages[${String(i)}].role` kept in parts:
\* the field, the index of the message (-1 when there is none) and the field
\* of the message.
validateChatCompletionRequestRaw(b) ==
    LET Err(code, field, index, sub) ==
            [valid |-> FALSE, code |-> code,
             param |-> [field |-> field, index |-> index, sub |-> sub]]
        Ok == [valid |-> TRUE, code |-> "none",
               param |-> [field |-> "none", index |-> -1, sub |-> "none"]]
        afterLoop ==
            IF b.model = "number" THEN Err("invalid_type", "model", -1, "none")
            ELSE IF b.stream = "string"
            THEN Err("invalid_type", "stream", -1, "none")
            ELSE Ok
        RECURSIVE loop(_)
        loop(i) ==
            IF ~(i < Len(b.elements)) THEN afterLoop
            ELSE LET msg == b.elements[i + 1] IN
                 IF msg.null THEN loop(i + 1)
                 ELSE IF msg.role = "absent"
                 THEN Err("missing_required_parameter", "messages", i, "role")
                 ELSE IF msg.role # "user"
                 THEN Err("invalid_value", "messages", i, "role")
                 ELSE IF msg.content \in {"absent", "null"}
                 THEN Err("missing_required_parameter", "messages", i, "content")
                 ELSE IF msg.content # "string"
                 THEN Err("invalid_type", "messages", i, "content")
                 ELSE loop(i + 1)
    IN IF b.messages = "absent"
       THEN Err("missing_required_parameter", "messages", -1, "none")
       ELSE IF b.messages # "array"
       THEN Err("invalid_type", "messages", -1, "none")
       ELSE IF Len(b.elements) = 0
       THEN Err("invalid_value", "messages", -1, "none")
       ELSE loop(0)

NoChecked ==
    [stage |-> "none",
     body |-> [messages |-> "absent", elements |-> <<>>, model |-> "absent",
               stream |-> "absent"],
     result |-> [valid |-> TRUE, code |-> "none",
                 param |-> [field |-> "none", index |-> -1, sub |-> "none"]]]

InitCommon ==
    /\ variant \in Variants
    /\ closeCount = [c \in Clients |-> 0]
    /\ created = pinned
    /\ pools = [k \in Keys |->
                  IF k = 1 /\ pinned # {} THEN [EmptyPool EXCEPT !.inUse = pinned]
                  ELSE NoPool]
    /\ pc = [r \in Reqs |-> "idle"]
    /\ stream = [r \in Reqs |-> FALSE]
    /\ key = [r \in Reqs |-> 1]
    /\ body = [r \in Reqs |-> NoBody]
    /\ attempt = [r \in Reqs |-> 0]
    /\ held = [r \in Reqs |-> NoClient]
    /\ aborted = [r \in Reqs |-> FALSE]
    /\ destroyed = [r \in Reqs |-> FALSE]
    /\ orphan = [r \in Reqs |-> FALSE]
    /\ trans = [r \in Reqs |-> NewTranslator]
    /\ out = [r \in Reqs |-> <<>>]
    /\ events = [r \in Reqs |-> <<>>]
    /\ outBase = [r \in Reqs |-> 0]
    /\ delivered = [r \in Reqs |-> 0]
    /\ prompts = [r \in Reqs |-> 0]
    /\ resp = [r \in Reqs |-> NoHttp]
    /\ response = [r \in Reqs |-> NoResponse]
    /\ metrics = NoMetrics
    /\ sink = [c \in Clients |-> 0]
    /\ activeRequests = [i \in Reqs |-> 0]
    /\ tools = NoTools
    /\ toolLog = [r \in Reqs |-> <<>>]
    /\ pending = [r \in Reqs |-> "none"]
    /\ isShuttingDown = FALSE
    /\ shutdownRuns = 0
    /\ exited = FALSE
    /\ closed = FALSE
    /\ faulted = {}
    /\ discarded = {}
    /\ overflow = {}

\* The pool specification: every slot may carry a request, and none or
\* POOL_SIZE - 2 up to POOL_SIZE clients are checked out already; session updates, which touch
\* no pool state, are left to the stream specification.
Init ==
    /\ \E n \in {0} \cup ((POOL_SIZE - 2)..POOL_SIZE) : pinned = PinnedClients(n)
    /\ InitCommon
    /\ slots = Reqs
    /\ keys = Keys
    /\ budget = 0
    /\ bodies = PlainBodies
    /\ responses = {PlainText}
    /\ alphabet = AllEvents
    /\ retryRun = NoRetry
    /\ classified = NoClassified
    /\ delay = NoDelay
    /\ loader = NoLoader
    /\ checked = NoChecked
    /\ sharedId = FALSE

\* The stream specification: one request on an empty pool, with its session
\* updates.
InitStream ==
    /\ pinned = {}
    /\ InitCommon
    /\ slots = {1}
    /\ keys = {1}
    /\ budget = MaxEvents
    /\ bodies = PlainBodies
    /\ responses = {PlainText}
    /\ alphabet = AllEvents
    /\ retryRun = NoRetry
    /\ classified = NoClassified
    /\ delay = NoDelay
    /\ loader = NoLoader
    /\ checked = NoChecked
    /\ sharedId = FALSE

\* One withRetry call around an operation that may fail on every call.
InitRetry ==
    /\ pinned = {}
    /\ InitCommon
    /\ slots = {}
    /\ keys = {1}
    /\ budget = 0
    /\ bodies = PlainBodies
    /\ responses = {PlainText}
    /\ alphabet = AllEvents
    /\ retryRun = [NoRetry EXCEPT !.state = "calling"]
    /\ classified = NoClassified
    /\ delay = NoDelay
    /\ loader = NoLoader
    /\ checked = NoChecked
    /\ sharedId = FALSE

\* One error handed to the classifiers.
InitErrors ==
    /\ pinned = {}
    /\ InitCommon
    /\ slots = {}
    /\ keys = {1}
    /\ budget = 0
    /\ bodies = PlainBodies
    /\ responses = {PlainText}
    /\ alphabet = AllEvents
    /\ retryRun = NoRetry
    /\ \E e \in Errors : classified = [NoClassified EXCEPT !.stage = "raw", !.err = e]
    /\ delay = NoDelay
    /\ loader = NoLoader
    /\ checked = NoChecked
    /\ sharedId = FALSE

\* ------------------------------------------------------- request handling
\* A finally block that leaves the stream callback on the client.
onSessionUpdateKept(s, c) == s

\* client.onSessionUpdate(null).
onSessionUpdateNull(s, c) == [s EXCEPT ![c] = 0]

\* client.prompt is called on c: the stream callback is created and
\* installed first when the request streams.
StartPrompt(r, c) ==
    /\ held' = [held EXCEPT ![r] = c]
    /\ pc' = [pc EXCEPT ![r] = "prompting"]
    /\ prompts' = [prompts EXCEPT ![r] = @ + 1]
    /\ trans' = [trans EXCEPT ![r] = NewTranslator]
    /\ events' = [events EXCEPT ![r] = <<>>]
    /\ outBase' = [outBase EXCEPT ![r] = Len(out[r])]
    /\ response' = [response EXCEPT ![r] = NoResponse]
    /\ tools' = IF stream[r] THEN resetToolCalls(variant, tools) ELSE tools
    /\ sink' = IF stream[r] THEN [sink EXCEPT ![c] = r] ELSE sink

\* The call function enters getAuggieClient.
Acquire(r) ==
    LET g == getAuggieClient(pools, key[r]) IN
    /\ pools' = g.pools
    /\ IF g.path = "reuse"
       THEN StartPrompt(r, g.client)
       ELSE /\ pc' = [pc EXCEPT ![r] =
                        IF g.path = "create" THEN "creating" ELSE "tempCreating"]
            /\ UNCHANGED <<held, sink, prompts, trans, events, outBase, response,
                           tools>>

\* cleanup (the finally of the plugin handler): the timers are cleared, the
\* abort controller is dropped with the request, and the standalone and
\* legacy builds count the request as successful or failed.
cleanup(r, success) ==
    /\ aborted' = [aborted EXCEPT ![r] = FALSE]
    /\ destroyed' = [destroyed EXCEPT ![r] = FALSE]
    /\ metrics' = cleanupMetrics(variant, metrics, success)
    /\ activeRequests' = IF variant = "plugin" THEN activeRequests
                         ELSE [activeRequests EXCEPT ![requestId(r)] = 0]

\* An error e leaves the call function: withRetry sleeps or rethrows, and the
\* handler answers. pre: chunks the finally block wrote before.
Throw(r, e, pre) ==
    LET wrapped == ~stream[r] \/ streamingUsesRetry(variant)
        retry == wrapped /\ withRetryCatch(variant, attempt[r], e) = "sleep"
        errWrites == IF stream[r] /\ (variant = "standalone" => ~destroyed[r])
                     THEN <<Chunk("error", <<>>, "none")>> ELSE <<>>
    IN IF retry
       THEN /\ attempt[r] < AttemptCap
            /\ pc' = [pc EXCEPT ![r] = "sleeping"]
            /\ out' = [out EXCEPT ![r] = @ \o pre]
            /\ UNCHANGED <<aborted, destroyed, resp, metrics, activeRequests>>
       ELSE /\ pc' = [pc EXCEPT ![r] = "failed"]
            /\ out' = [out EXCEPT ![r] = @ \o pre \o errWrites]
            /\ resp' = [resp EXCEPT ![r] =
                          IF stream[r] THEN @ ELSE errorResponse(variant, e)]
            /\ cleanup(r, FALSE)

\* handleChatCompletions from its entry to the await of parseBody.
Start(r) ==
    /\ Running /\ ~closed
    /\ r \in slots /\ pc[r] = "idle"
    /\ \E s \in BOOLEAN, k \in keys :
          /\ stream' = [stream EXCEPT ![r] = s]
          /\ key' = [key EXCEPT ![r] = k]
    /\ IF variant # "plugin" /\ isShuttingDown
       THEN /\ pc' = [pc EXCEPT ![r] = "rejected"]
            /\ metrics' = cleanupMetrics(variant, trackRequest(variant, metrics),
                                         FALSE)
            /\ activeRequests' = [activeRequests EXCEPT ![requestId(r)] = 0]
            /\ resp' = [resp EXCEPT ![r] = ShuttingDown]
       ELSE /\ pc' = [pc EXCEPT ![r] = "parsing"]
            /\ metrics' = trackRequest(variant, metrics)
            /\ activeRequests' = IF variant = "plugin" THEN activeRequests
                                 ELSE [activeRequests EXCEPT ![requestId(r)] = r]
            /\ UNCHANGED resp
    /\ UNCHANGED <<pureVars, cfgVars, poolVars, attempt, held, sink, aborted, destroyed, orphan,
                   trans, out, events, outBase, delivered, prompts, downVars,
                   histVars, response, pending, body,
                   toolLog, tools>>

\* parseBody settled: an unparsable body goes to the outer catch block, a body
\* the validation rejects is answered with 400; then the abort check (not in
\* the plugin build), the SSE headers, and the first attempt up to the
\* suspension in getAuggieClient.
Dispatch(r) ==
    /\ Running /\ pc[r] = "parsing"
    /\ \E b \in bodies :
          LET val == validateChatCompletionRequest(variant, b) IN
          /\ body' = [body EXCEPT ![r] = b]
          /\ IF b.parse = "invalid"
             THEN /\ pc' = [pc EXCEPT ![r] = "failed"]
                  /\ resp' = [resp EXCEPT ![r] = errorResponse(variant, ErrInvalidJson)]
                  /\ cleanup(r, FALSE)
                  /\ UNCHANGED <<pools, held, sink, prompts, trans, events, outBase,
                                 response, tools>>
             ELSE IF ~val.valid
             THEN /\ pc' = [pc EXCEPT ![r] = "invalid"]
                  /\ resp' = [resp EXCEPT ![r] =
                                Http(400, val.type, val.code, val.param,
                                     FALSE)]
                  /\ cleanup(r, FALSE)
                  /\ UNCHANGED <<pools, held, sink, prompts, trans, events, outBase,
                                 response, tools>>
             ELSE IF b.messages = "nullElement"
             THEN /\ StreamOf(variant, b) = stream[r]
                  /\ pc' = [pc EXCEPT ![r] = "failed"]
                  /\ resp' = [resp EXCEPT ![r] = errorResponse(variant, ErrNullMessage)]
                  /\ cleanup(r, FALSE)
                  /\ UNCHANGED <<pools, held, sink, prompts, trans, events, outBase,
                                 response, tools>>
             ELSE /\ StreamOf(variant, b) = stream[r]
                  /\ IF variant # "plugin" /\ aborted[r]
                     THEN /\ pc' = [pc EXCEPT ![r] = "aborted"]
                          /\ cleanup(r, FALSE)
                          /\ UNCHANGED <<pools, held, sink, prompts, trans, events,
                                         outBase, resp, response, tools>>
                     ELSE /\ Acquire(r)
                          /\ resp' = [resp EXCEPT ![r] =
                                        IF stream[r] THEN SseHeaders ELSE @]
                          /\ UNCHANGED <<aborted, destroyed, metrics,
                                         activeRequests>>
    /\ UNCHANGED <<pureVars, cfgVars, closeCount, created, stream, key, attempt,
                   orphan, out, delivered, downVars, histVars, pending,
                   toolLog>>

\* createAuggieClient resolved for a reserved slot.
CreateDone(r) ==
    /\ Running /\ pc[r] = "creating"
    /\ LET c == ClientOf(r, attempt[r]) IN
          /\ pools' = IF orphan[r] THEN pools ELSE createResolved(pools, key[r], c)
          /\ created' = created \cup {c}
          /\ StartPrompt(r, c)
    /\ orphan' = [orphan EXCEPT ![r] = FALSE]
    /\ UNCHANGED <<pureVars, cfgVars, closeCount, stream, key, body, attempt, aborted, destroyed,
                   out, delivered, downVars, histVars,
                   resp, srvVars,
                   toolLog>>

\* createAuggieClient rejected for a reserved slot.
CreateFail(r) ==
    /\ Running /\ pc[r] = "creating"
    /\ pools' = IF orphan[r] THEN pools ELSE createRejected(pools, key[r])
    /\ \E e \in UpstreamErrors : Throw(r, e, <<>>)
    /\ orphan' = [orphan EXCEPT ![r] = FALSE]
    /\ UNCHANGED <<pureVars, cfgVars, closeCount, created, stream, key, body, attempt, held, sink,
                   trans, events, outBase, delivered, prompts, downVars, histVars,
                   response, pending,
                   toolLog, tools>>

\* createAuggieClient resolved on the pool-at-capacity path.
TempCreateDone(r) ==
    /\ Running /\ pc[r] = "tempCreating"
    /\ LET c == ClientOf(r, attempt[r]) IN
          /\ created' = created \cup {c}
          /\ overflow' = overflow \cup {c}
          /\ StartPrompt(r, c)
    /\ UNCHANGED <<pureVars, cfgVars, pools, closeCount, stream, key, body, attempt, aborted,
                   destroyed, orphan, out, delivered, downVars, faulted, discarded,
                   resp, srvVars,
                   toolLog>>

\* createAuggieClient rejected on the pool-at-capacity path.
TempCreateFail(r) ==
    /\ Running /\ pc[r] = "tempCreating"
    /\ \E e \in UpstreamErrors : Throw(r, e, <<>>)
    /\ UNCHANGED <<pureVars, cfgVars, poolVars, stream, key, body, attempt, held, sink,
                   orphan, trans, events, outBase, delivered, prompts,
                   downVars, histVars,
                   response, pending,
                   toolLog, tools>>

\* The SDK delivers one session update to the installed stream callback. An
\* abort already signalled is handled before any further I/O event (its
\* continuation is a microtask), except in the legacy build, which ignores it.
StreamEvent(r) ==
    /\ Running /\ pc[r] = "prompting" /\ stream[r]
    /\ sink[held[r]] = r
    /\ racesAbort(variant) => ~aborted[r]
    /\ delivered[r] < budget
    /\ \E ev \in alphabet :
          LET cb == createStreamCallback(variant, trans[r], ev)
              tc == trackToolCall(variant, tools, ev) IN
          /\ trans' = [trans EXCEPT ![r] = cb.st]
          /\ tools' = tc.tools
          /\ toolLog' = [toolLog EXCEPT ![r] = @ \o tc.used]
          /\ out' = [out EXCEPT ![r] =
                       IF variant = "standalone" /\ destroyed[r] THEN @
                       ELSE @ \o cb.writes]
          /\ events' = [events EXCEPT ![r] = Append(@, ev)]
    /\ delivered' = [delivered EXCEPT ![r] = @ + 1]
    /\ UNCHANGED <<pureVars, cfgVars, poolVars, pc, stream, key, body, attempt, held, sink, aborted,
                   destroyed, orphan, outBase, prompts, downVars, histVars,
                   resp, response, srvVars>>

\* The 15 s keepalive interval of the standalone build fires.
Keepalive(r) ==
    /\ Running /\ pc[r] = "prompting" /\ stream[r]
    /\ variant = "standalone" /\ ~aborted[r] /\ ~destroyed[r]
    /\ delivered[r] < budget
    /\ out' = [out EXCEPT ![r] = Append(@, Chunk("keepalive", <<>>, "none"))]
    /\ delivered' = [delivered EXCEPT ![r] = @ + 1]
    /\ UNCHANGED <<pureVars, cfgVars, poolVars, pc, stream, key, body, attempt, held, sink, aborted,
                   destroyed, orphan, trans, events, outBase, prompts, downVars,
                   histVars,
                   resp, response, srvVars,
                   toolLog, tools>>

\* The finally block of the call functions: the plugin build flushes the
\* reasoning buffer, the sink is removed, the client is released or discarded.
\* ok: the prompt resolved with a proper response; otherwise e was caught.
Finally(r, ok, e) ==
    LET c == held[r]
        disc == ~ok /\ shouldDiscard(variant, e)
        res == IF disc THEN discardAuggieClient(variant, pools, key[r], c)
               ELSE releaseAuggieClient(pools, key[r], c)
    IN /\ pools' = res.pools
       /\ closeCount' = IF res.closed THEN [closeCount EXCEPT ![c] = @ + 1]
                        ELSE closeCount
       /\ discarded' = IF disc THEN discarded \cup {c} ELSE discarded
       /\ faulted' = IF ~ok /\ (e.msg = ErrAborted.msg \/ isSessionError(variant, e))
                     THEN faulted \cup {c} ELSE faulted
       /\ held' = [held EXCEPT ![r] = NoClient]
       /\ sink' = IF stream[r] THEN onSessionUpdateNull(sink, c) ELSE sink

FlushWrites(r) ==
    IF stream[r] /\ variant = "plugin"
    THEN flushReasoningBuffer(trans[r]).writes ELSE <<>>

\* client.prompt resolved and won the race: isSDKErrorResponse decides
\* whether the string is a response or an error payload.
PromptResolved(r) ==
    /\ Running /\ pc[r] = "prompting"
    /\ racesAbort(variant) => ~aborted[r]
    /\ \E rsp \in responses :
          /\ response' = [response EXCEPT ![r] = rsp]
          /\ IF isSDKErrorResponse(rsp).isError
             THEN /\ Finally(r, FALSE, PayloadError(rsp))
                  /\ Throw(r, PayloadError(rsp), FlushWrites(r))
             ELSE /\ Finally(r, TRUE, ErrGeneric)
                  /\ pc' = [pc EXCEPT ![r] = "completed"]
                  /\ out' = [out EXCEPT ![r] =
                               IF ~stream[r] THEN @
                               ELSE IF variant = "standalone" /\ destroyed[r]
                               THEN @ \o FlushWrites(r)
                               ELSE @ \o FlushWrites(r)
                                      \o <<stopChunk(variant),
                                           Chunk("done", <<>>, "none")>>]
                  /\ resp' = [resp EXCEPT ![r] =
                                IF stream[r] THEN @ ELSE Completion]
                  /\ cleanup(r, TRUE)
    /\ UNCHANGED <<pureVars, cfgVars, created, stream, key, body, attempt,
                   orphan, trans, events, outBase, delivered, prompts, downVars,
                   overflow, pending,
                   toolLog, tools>>

\* client.prompt rejected and won the race.
PromptFail(r) ==
    /\ Running /\ pc[r] = "prompting"
    /\ racesAbort(variant) => ~aborted[r]
    /\ \E e \in UpstreamErrors :
          /\ Finally(r, FALSE, e)
          /\ Throw(r, e, FlushWrites(r))
    /\ UNCHANGED <<pureVars, cfgVars, created, stream, key, body, attempt,
                   orphan, trans, events, outBase, delivered, prompts, downVars,
                   overflow,
                   response, pending,
                   toolLog, tools>>

\* The abort promise won the race (standalone and plugin builds); the
\* promise of client.prompt is left unsettled.
AbortWins(r) ==
    /\ Running /\ pc[r] = "prompting"
    /\ racesAbort(variant) /\ aborted[r]
    /\ Finally(r, FALSE, ErrAborted)
    /\ Throw(r, ErrAborted, FlushWrites(r))
    /\ pending' = [pending EXCEPT ![r] = "unsettled"]
    /\ UNCHANGED <<pureVars, cfgVars, created, stream, key, body, attempt,
                   orphan, trans, events, outBase, delivered, prompts, downVars,
                   overflow, response,
                   toolLog, tools>>

\* The client.prompt promise that lost the race settles: Promise.race has
\* settled already and nothing else awaits it.
LateSettle(r) ==
    /\ Running /\ pending[r] = "unsettled"
    /\ pending' = [pending EXCEPT ![r] = "settled"]
    /\ UNCHANGED <<pureVars, cfgVars, poolVars, reqVars, downVars, histVars,
                   metrics, activeRequests,
                   tools>>

\* withRetry's sleep ended: the next attempt enters getAuggieClient.
SleepDone(r) ==
    /\ Running /\ pc[r] = "sleeping"
    /\ attempt' = [attempt EXCEPT ![r] = @ + 1]
    /\ Acquire(r)
    /\ UNCHANGED <<pureVars, cfgVars, closeCount, created, stream, key, body, aborted, destroyed,
                   orphan, out, delivered, downVars, histVars,
                   resp, srvVars,
                   toolLog>>

\* The request timer fires.
Timeout(r) ==
    /\ Running /\ Active(r) /\ ~aborted[r]
    /\ aborted' = [aborted EXCEPT ![r] = TRUE]
    /\ UNCHANGED <<pureVars, cfgVars, poolVars, pc, stream, key, body, attempt, held, sink, destroyed,
                   orphan, trans, out, events, outBase, delivered, prompts,
                   downVars, histVars,
                   resp, response, srvVars,
                   toolLog, tools>>

\* The caller closes the connection before the response has ended. Only the
\* standalone build reads res.destroyed; for the others it is not tracked.
Disconnect(r) ==
    /\ Running /\ Active(r)
    /\ IF variant = "standalone" THEN ~destroyed[r] ELSE ~aborted[r]
    /\ destroyed' = [destroyed EXCEPT ![r] = (variant = "standalone")]
    /\ aborted' = [aborted EXCEPT ![r] = TRUE]
    /\ UNCHANGED <<pureVars, cfgVars, poolVars, pc, stream, key, body, attempt, held, sink, orphan,
                   trans, out, events, outBase, delivered, prompts, downVars,
                   histVars,
                   resp, response, srvVars,
                   toolLog, tools>>

\* A guard that lets every signal start a shutdown.
shutdownInProgressNever(flag) == FALSE

\* The guard of gracefulShutdown: `if (isShuttingDown) return`.
shutdownInProgress(flag) == flag

\* SIGTERM or SIGINT arrives: gracefulShutdown up to its first wait, or its
\* early return while a shutdown is in progress (standalone and legacy
\* builds).
ShutdownBegin ==
    /\ Running /\ variant # "plugin"
    /\ IF shutdownInProgress(isShuttingDown)
       THEN UNCHANGED <<isShuttingDown, shutdownRuns>>
       ELSE /\ shutdownRuns < MaxSignals
            /\ isShuttingDown' = TRUE
            /\ shutdownRuns' = shutdownRuns + 1
    /\ UNCHANGED <<pureVars, cfgVars, poolVars, reqVars, exited, closed, histVars,
                   srvVars,
                   tools>>

\* gracefulShutdown after its wait: no request is active, or the shutdown
\* timeout was reached and the remaining requests are aborted; the pool table
\* is emptied and the process exits.
gracefulShutdown ==
    /\ Running /\ variant # "plugin" /\ isShuttingDown
    /\ aborted' = [r \in Reqs |->
                      aborted[r] \/ \E i \in Reqs : activeRequests[i] = r]
    /\ pools' = [k \in Keys |-> NoPool]
    /\ exited' = TRUE
    /\ UNCHANGED <<pureVars, cfgVars, closeCount, created, pc, stream, key, body, attempt, held, sink,
                   destroyed, orphan, trans, out, events, outBase, delivered,
                   prompts, isShuttingDown, shutdownRuns, closed, histVars,
                   resp, response, srvVars,
                   toolLog, tools>>

\* The close() returned by startEmbeddedServer (plugin build): every available
\* and every in-use client is closed and the pool table is emptied; requests
\* in flight go on.
Close ==
    /\ variant = "plugin" /\ ~closed
    /\ closeCount' = [c \in Clients |->
                        IF \E k \in Keys : c \in Range(pools[k].available)
                                             \cup pools[k].inUse
                        THEN closeCount[c] + 1 ELSE closeCount[c]]
    /\ pools' = [k \in Keys |-> NoPool]
    /\ orphan' = [r \in Reqs |-> orphan[r] \/ pc[r] = "creating"]
    /\ closed' = TRUE
    /\ UNCHANGED <<pureVars, cfgVars, created, pc, stream, key, body, attempt, held, sink, aborted,
                   destroyed, trans, out, events, outBase, delivered, prompts,
                   isShuttingDown, shutdownRuns, exited, histVars,
                   resp, response, srvVars,
                   toolLog, tools>>

\* ---------------------------------------------------- withRetry, alone
\* operation() resolved: withRetry returns its value.
RetryOperationOk ==
    /\ retryRun.state = "calling"
    /\ retryRun' = [retryRun EXCEPT !.state = "returned", !.calls = @ + 1]
    /\ UNCHANGED <<checked, cfgVars, poolVars, reqVars, downVars, histVars, srvVars, classified, delay, loader,
                   tools>>

\* operation() rejected with e: the catch block of withRetry.
RetryOperationFail ==
    /\ retryRun.state = "calling"
    /\ \E e \in OperationErrors :
          retryRun' = IF withRetryCatch(variant, retryRun.attempt, e) = "sleep"
                   THEN [retryRun EXCEPT !.state = "sleeping", !.calls = @ + 1,
                                      !.sleeps = @ + 1, !.last = e]
                   ELSE [retryRun EXCEPT !.state = "thrown", !.calls = @ + 1,
                                      !.last = e, !.thrown = e]
    /\ UNCHANGED <<checked, cfgVars, poolVars, reqVars, downVars, histVars, srvVars, classified, delay, loader,
                   tools>>

\* The sleep of withRetry ended: the loop counts up and calls again.
RetrySleepDone ==
    /\ retryRun.state = "sleeping"
    /\ retryRun' = [retryRun EXCEPT !.state = "calling", !.attempt = @ + 1]
    /\ UNCHANGED <<checked, cfgVars, poolVars, reqVars, downVars, histVars, srvVars, classified, delay, loader,
                   tools>>

NextRetry == RetryOperationOk \/ RetryOperationFail \/ RetrySleepDone

SpecRetry == InitRetry /\ [][NextRetry]_vars

\* ------------------------------------------------- the classifiers, alone
\* isRetryableError, the envelope builder and the status rule of the handler's
\* catch block are applied to the error.
Classify ==
    /\ classified.stage = "raw"
    /\ classified' =
          [classified EXCEPT
             !.stage = "done",
             !.retryable = isRetryableError(variant, classified.err),
             !.envelope = IF variant = "plugin"
                          THEN [type |-> classifyError(classified.err).type,
                                code |-> classifyError(classified.err).code,
                                param |-> classifyError(classified.err).param,
                                label |-> classifyError(classified.err).label]
                          ELSE createOpenAIError(variant, classified.err),
             !.status = errorResponse(variant, classified.err).status]
    /\ UNCHANGED <<checked, cfgVars, poolVars, reqVars, downVars, histVars, srvVars, retryRun, delay, loader,
                   tools>>

NextErrors == Classify

SpecErrors == InitErrors /\ [][NextErrors]_vars

\* ------------------------------------------------- the retry delay, alone
\* One call of calculateRetryDelay: the attempt number and the value of
\* Math.random() are the inputs.
InitDelay ==
    /\ pinned = {}
    /\ InitCommon
    /\ slots = {}
    /\ keys = {1}
    /\ budget = 0
    /\ bodies = PlainBodies
    /\ responses = {PlainText}
    /\ alphabet = AllEvents
    /\ retryRun = NoRetry
    /\ classified = NoClassified
    /\ \E n \in 0..MaxAttempt : \E k \in 0..(RandomSteps - 1) :
          delay = [NoDelay EXCEPT !.stage = "called", !.attempt = n, !.random = k]
    /\ loader = NoLoader
    /\ checked = NoChecked
    /\ sharedId = FALSE

CalculateRetryDelay ==
    /\ delay.stage = "called"
    /\ delay' = [delay EXCEPT
                   !.stage = "returned",
                   !.ms = calculateRetryDelay(variant, delay.attempt, delay.random)]
    /\ UNCHANGED <<checked, cfgVars, poolVars, reqVars, downVars, histVars, srvVars,
                   retryRun, classified, loader, tools>>

NextDelay == CalculateRetryDelay

SpecDelay == InitDelay /\ [][NextDelay]_vars

\* ------------------------------------------------- the plugin loader, alone
\* A server started by an earlier ensureServer call is recorded: its port and
\* its resolved start promise; it answers the health check or it is dead.
Recorded(isAlive) ==
    [NoLoader EXCEPT !.embeddedServerPort = RecordedPort,
                     !.serverStarting = RecordedPort,
                     !.promise[RecordedPort] = "resolved",
                     !.alive = IF isAlive THEN {RecordedPort} ELSE {}]

InitEnsure ==
    /\ pinned = {}
    /\ InitCommon
    /\ slots = {}
    /\ keys = {1}
    /\ budget = 0
    /\ bodies = PlainBodies
    /\ responses = {PlainText}
    /\ alphabet = AllEvents
    /\ retryRun = NoRetry
    /\ classified = NoClassified
    /\ delay = NoDelay
    /\ variant = "plugin"
    /\ loader \in {NoLoader, Recorded(TRUE), Recorded(FALSE)}
    /\ checked = NoChecked
    /\ sharedId = FALSE

\* ensureServer from "if (serverStarting)" on, up to its next await: wait for
\* the start in progress, or call startEmbeddedServer and wait for that.
enterLock(L, c) ==
    IF L.serverStarting # 0
    THEN [L EXCEPT !.cpc[c] = "waiting", !.awaited[c] = L.serverStarting]
    ELSE LET p == CHOOSE q \in Starts :
                     /\ L.promise[q] = "none"
                     /\ \A o \in Starts : L.promise[o] = "none" => q <= o
         IN [L EXCEPT !.serverStarting = p, !.promise[p] = "pending",
                      !.cpc[c] = "waiting", !.awaited[c] = p]
CanEnter(L) == L.serverStarting # 0 \/ \E q \in Starts : L.promise[q] = "none"

\* ensureServer is called: up to the health check of a recorded server, or
\* into the lock.
EnsureServer(c) ==
    /\ loader.cpc[c] = "idle"
    /\ IF loader.embeddedServerPort # 0
       THEN loader' = [loader EXCEPT !.cpc[c] = "checking",
                                     !.awaited[c] = loader.embeddedServerPort]
       ELSE CanEnter(loader) /\ loader' = enterLock(loader, c)
    /\ UNCHANGED <<checked, cfgVars, poolVars, reqVars, downVars, histVars, srvVars,
                   retryRun, classified, delay, tools>>

\* isServerAlive answered: return the recorded port, or clear the stale
\* state and go on into the lock.
IsServerAliveDone(c) ==
    /\ loader.cpc[c] = "checking"
    /\ IF loader.awaited[c] \in loader.alive
       THEN loader' = [loader EXCEPT !.cpc[c] = "done",
                                     !.result[c] = loader.embeddedServerPort]
       ELSE LET cleared == [loader EXCEPT !.embeddedServerPort = 0,
                                          !.serverStarting = 0]
            IN CanEnter(cleared) /\ loader' = enterLock(cleared, c)
    /\ UNCHANGED <<checked, cfgVars, poolVars, reqVars, downVars, histVars, srvVars,
                   retryRun, classified, delay, tools>>

\* startEmbeddedServer resolved: the port is recorded.
StartResolved(p) ==
    /\ loader.promise[p] = "pending"
    /\ loader' = [loader EXCEPT !.promise[p] = "resolved",
                                !.embeddedServerPort = p,
                                !.alive = @ \cup {p}]
    /\ UNCHANGED <<checked, cfgVars, poolVars, reqVars, downVars, histVars, srvVars,
                   retryRun, classified, delay, tools>>

\* startEmbeddedServer rejected: the catch block clears the lock.
StartRejected(p) ==
    /\ loader.promise[p] = "pending"
    /\ loader' = [loader EXCEPT !.promise[p] = "rejected",
                                !.serverStarting = 0]
    /\ UNCHANGED <<checked, cfgVars, poolVars, reqVars, downVars, histVars, srvVars,
                   retryRun, classified, delay, tools>>

\* await serverStarting returned or threw in a caller.
AwaitDone(c) ==
    /\ loader.cpc[c] = "waiting"
    /\ loader.promise[loader.awaited[c]] \in {"resolved", "rejected"}
    /\ loader' = IF loader.promise[loader.awaited[c]] = "resolved"
                 THEN [loader EXCEPT !.cpc[c] = "done",
                                     !.result[c] = loader.awaited[c]]
                 ELSE [loader EXCEPT !.cpc[c] = "failed"]
    /\ UNCHANGED <<checked, cfgVars, poolVars, reqVars, downVars, histVars, srvVars,
                   retryRun, classified, delay, tools>>

\* A running embedded server stops answering.
ServerDies(p) ==
    /\ p \in loader.alive
    /\ loader' = [loader EXCEPT !.alive = @ \ {p}]
    /\ UNCHANGED <<checked, cfgVars, poolVars, reqVars, downVars, histVars, srvVars,
                   retryRun, classified, delay, tools>>

NextEnsure ==
    \/ \E c \in Callers : EnsureServer(c)
    \/ \E c \in Callers : IsServerAliveDone(c)
    \/ \E c \in Callers : AwaitDone(c)
    \/ \E p \in Starts : StartResolved(p)
    \/ \E p \in Starts : StartRejected(p)
    \/ \E p \in Starts \cup {RecordedPort} : ServerDies(p)

SpecEnsure == InitEnsure /\ [][NextEnsure]_vars

\* ------------------------------------- validateChatCompletionRequest, alone
\* One call of validateChatCompletionRequest on any of the bodies.
InitValidate ==
    /\ pinned = {}
    /\ InitCommon
    /\ slots = {}
    /\ keys = {1}
    /\ budget = 0
    /\ bodies = PlainBodies
    /\ responses = {PlainText}
    /\ alphabet = AllEvents
    /\ retryRun = NoRetry
    /\ classified = NoClassified
    /\ delay = NoDelay
    /\ loader = NoLoader
    /\ variant # "plugin"
    /\ \E b \in RawBodies :
          checked = [NoChecked EXCEPT !.stage = "called", !.body = b]
    /\ sharedId = FALSE

ValidateRequest ==
    /\ checked.stage = "called"
    /\ checked' = [checked EXCEPT
                     !.stage = "returned",
                     !.result = validateChatCompletionRequestRaw(checked.body)]
    /\ UNCHANGED <<cfgVars, poolVars, reqVars, downVars, histVars, srvVars,
                   retryRun, classified, delay, loader, tools>>

NextValidate == ValidateRequest

SpecValidate == InitValidate /\ [][NextValidate]_vars

\* Every step that touches the pool table or a request's position.
Next ==
    \/ \E r \in Reqs : Start(r)
    \/ \E r \in Reqs : Dispatch(r)
    \/ \E r \in Reqs : CreateDone(r)
    \/ \E r \in Reqs : CreateFail(r)
    \/ \E r \in Reqs : TempCreateDone(r)
    \/ \E r \in Reqs : TempCreateFail(r)
    \/ \E r \in Reqs : PromptResolved(r)
    \/ \E r \in Reqs : PromptFail(r)
    \/ \E r \in Reqs : AbortWins(r)
    \/ \E r \in Reqs : SleepDone(r)
    \/ \E r \in Reqs : Timeout(r)
    \/ \E r \in Reqs : Disconnect(r)
    \/ ShutdownBegin
    \/ gracefulShutdown
    \/ Close

Spec == Init /\ [][Next]_vars

\* One request with its session updates and keepalives.
NextStream ==
    \/ \E r \in Reqs : Start(r)
    \/ \E r \in Reqs : Dispatch(r)
    \/ \E r \in Reqs : CreateDone(r)
    \/ \E r \in Reqs : CreateFail(r)
    \/ \E r \in Reqs : StreamEvent(r)
    \/ \E r \in Reqs : Keepalive(r)
    \/ \E r \in Reqs : PromptResolved(r)
    \/ \E r \in Reqs : PromptFail(r)
    \/ \E r \in Reqs : AbortWins(r)
    \/ \E r \in Reqs : SleepDone(r)
    \/ \E r \in Reqs : Timeout(r)
    \/ \E r \in Reqs : Disconnect(r)

SpecStream == InitStream /\ [][NextStream]_vars

\* One request on an empty pool, with every body a caller may send and every
\* string the upstream may resolve with.
InitHandler ==
    /\ pinned = {}
    /\ InitCommon
    /\ slots = {1}
    /\ keys = {1}
    /\ budget = HandlerEvents
    /\ bodies = Bodies
    /\ responses = Responses
    /\ alphabet = AllEvents
    /\ retryRun = NoRetry
    /\ classified = NoClassified
    /\ delay = NoDelay
    /\ loader = NoLoader
    /\ checked = NoChecked
    /\ sharedId = FALSE

NextHandler ==
    \/ \E r \in Reqs : Start(r)
    \/ \E r \in Reqs : Dispatch(r)
    \/ \E r \in Reqs : CreateDone(r)
    \/ \E r \in Reqs : CreateFail(r)
    \/ \E r \in Reqs : StreamEvent(r)
    \/ \E r \in Reqs : PromptResolved(r)
    \/ \E r \in Reqs : PromptFail(r)
    \/ \E r \in Reqs : AbortWins(r)
    \/ \E r \in Reqs : LateSettle(r)
    \/ \E r \in Reqs : SleepDone(r)
    \/ \E r \in Reqs : Timeout(r)
    \/ \E r \in Reqs : Disconnect(r)
    \/ ShutdownBegin
    \/ gracefulShutdown

SpecHandler == InitHandler /\ [][NextHandler]_vars

\* Two requests, with their own request ids or with the same X-Request-ID,
\* and the shutdown of the server.
InitActive ==
    /\ pinned = {}
    /\ InitCommon
    /\ slots = Reqs
    /\ keys = {1}
    /\ budget = 0
    /\ bodies = PlainBodies
    /\ responses = {PlainText}
    /\ alphabet = AllEvents
    /\ retryRun = NoRetry
    /\ classified = NoClassified
    /\ delay = NoDelay
    /\ loader = NoLoader
    /\ checked = NoChecked
    /\ sharedId \in BOOLEAN

NextActive ==
    \/ \E r \in Reqs : Start(r)
    \/ \E r \in Reqs : Dispatch(r)
    \/ \E r \in Reqs : CreateDone(r)
    \/ \E r \in Reqs : PromptResolved(r)
    \/ \E r \in Reqs : PromptFail(r)
    \/ \E r \in Reqs : AbortWins(r)
    \/ \E r \in Reqs : SleepDone(r)
    \/ \E r \in Reqs : Timeout(r)
    \/ ShutdownBegin
    \/ gracefulShutdown

SpecActive == InitActive /\ [][NextActive]_vars

\* The same program with what the runtime guarantees: a timer that is armed
\* fires (the request deadline, the sleep of withRetry, the wait of
\* gracefulShutdown), createAuggieClient
\* settles, and the continuation of a rejected abort promise runs. Neither
\* the arrival of the request body nor the settlement of client.prompt is
\* guaranteed.
SpecLive ==
    /\ InitActive
    /\ [][NextActive]_vars
    /\ \A r \in Reqs : /\ WF_vars(Timeout(r))
                       /\ WF_vars(SleepDone(r))
                       /\ WF_vars(CreateDone(r))
                       /\ WF_vars(AbortWins(r))
    /\ WF_vars(gracefulShutdown)

\* Two requests whose upstream sessions report tool calls; no call fails.
InitTools ==
    /\ pinned = {}
    /\ InitCommon
    /\ slots = Reqs
    /\ keys = {1}
    /\ budget = ToolEventsMax
    /\ bodies = PlainBodies
    /\ responses = {PlainText}
    /\ alphabet = ToolEvents
    /\ retryRun = NoRetry
    /\ classified = NoClassified
    /\ delay = NoDelay
    /\ loader = NoLoader
    /\ checked = NoChecked
    /\ sharedId = FALSE

NextTools ==
    \/ \E r \in Reqs : Start(r)
    \/ \E r \in Reqs : Dispatch(r)
    \/ \E r \in Reqs : CreateDone(r)
    \/ \E r \in Reqs : StreamEvent(r)
    \/ \E r \in Reqs : PromptResolved(r)

SpecTools == InitTools /\ [][NextTools]_vars

\* ================================================================ claims
PoolSum(k) == Len(pools[k].available) + Cardinality(pools[k].inUse)
                  + pools[k].creating
Pooled(k) == Range(pools[k].available) \cup pools[k].inUse

\* C1: for every pool key, in every reachable state, available.length +
\* inUse.size + creating <= POOL_SIZE, and no client minted by the overflow
\* path is counted in available or inUse.
C1_PoolSumWithinCapacity ==
    \A k \in Keys :
        /\ PoolSum(k) <= POOL_SIZE
        /\ overflow \cap Pooled(k) = {}

\* C1 witness: a full pool with a returned client, beside which an overflow
\* client was minted.
C1_Witness ==
    \E k \in Keys :
        /\ PoolSum(k) = POOL_SIZE
        /\ Len(pools[k].available) >= 1
        /\ overflow # {}

\* C2: a client is held by at most one unfinished request, and no client is
\* in available and inUse at once, twice in available, or in available while
\* a request holds it.
C2_ExclusiveOwnership ==
    /\ \A r1, r2 \in Reqs :
          (r1 # r2 /\ held[r1] # NoClient) => held[r1] # held[r2]
    /\ \A r \in Reqs : held[r] \notin pinned
    /\ \A k \in Keys :
          /\ Range(pools[k].available) \cap pools[k].inUse = {}
          /\ Cardinality(Range(pools[k].available)) = Len(pools[k].available)
          /\ \A r \in Reqs : held[r] \notin Range(pools[k].available)
    /\ \A k1, k2 \in Keys : k1 # k2 => Pooled(k1) \cap Pooled(k2) = {}

\* C2 witness: a request prompts on a client another request created, while
\* a second request prompts on its own.
C2_Witness ==
    \E r1, r2 \in Reqs :
        /\ r1 # r2
        /\ pc[r1] = "prompting" /\ pc[r2] = "prompting"
        /\ held[r1] \in {ClientOf(r2, a) : a \in 0..AttemptCap}

\* C3: a client whose prompt attempt ended with a session fault or with the
\* local abort is in no available list afterwards, and no request holds it.
C3_FaultedNeverAvailable ==
    /\ \A k \in Keys : faulted \cap Pooled(k) = {}
    /\ \A r \in Reqs : held[r] \notin faulted

\* C3 witness: a faulted client of a streaming request and one of a
\* non-streaming request were discarded while the pool holds a returned client.
C3_Witness ==
    /\ \E r1, r2 \in Reqs :
          /\ stream[r1] /\ ~stream[r2]
          /\ \E a \in 0..AttemptCap : ClientOf(r1, a) \in faulted
          /\ \E a \in 0..AttemptCap : ClientOf(r2, a) \in faulted
    /\ \E k \in Keys : pools[k].available # <<>>

\* C10: under any interleaving of acquire calls, inUse.size + creating never
\* exceeds POOL_SIZE.
C10_InUsePlusCreatingWithinCapacity ==
    \A k \in Keys : Cardinality(pools[k].inUse) + pools[k].creating <= POOL_SIZE

\* C10 witness: an acquire took the overflow path while another one is
\* suspended in creation on the last free slot.
C10_Witness ==
    \E k \in Keys, r1, r2 \in Reqs :
        /\ pc[r1] = "creating" /\ pc[r2] = "tempCreating"
        /\ key[r1] = k /\ key[r2] = k
        /\ Cardinality(pools[k].inUse) + pools[k].creating = POOL_SIZE

\* ------------------------------------------------ claims on the SSE stream
IsThought(ev) == ev.sessionUpdate = "agent_thought_chunk" /\ ev.text # <<>>
IsText(ev) == ev.sessionUpdate = "agent_message_chunk" /\ ev.text # <<>>
IsThoughtOrText(ev) == IsThought(ev) \/ IsText(ev)
HasText(E) == \E i \in 1..Len(E) : IsText(E[i])
FirstText(E) == CHOOSE i \in 1..Len(E) : IsText(E[i]) /\ \A j \in 1..(i - 1) : ~IsText(E[j])
TextsOf(E) == [i \in 1..Len(E) |-> E[i].text]
IsReasoningOrContent(ch) == ch.kind \in {"reasoning", "content"}
IsReasoning(ch) == ch.kind = "reasoning"
\* The chunks the current attempt of r has written.
AttemptWrites(r) == SubSeq(out[r], outBase[r] + 1, Len(out[r]))
\* Kind and text of the reasoning and content chunks of a chunk sequence.
Deltas(W) ==
    LET S == SelectSeq(W, IsReasoningOrContent)
    IN [i \in 1..Len(S) |-> <<S[i].kind, S[i].text>>]
\* What the buffer-then-flush rule yields for an event sequence with a text.
ExpectedDeltas(E) ==
    LET i == FirstText(E)
        pre == SelectSeq(SubSeq(E, 1, i - 1), IsThought)
        post == SelectSeq(SubSeq(E, i, Len(E)), IsThoughtOrText)
    IN (IF pre = <<>> THEN <<>> ELSE << <<"reasoning", Join(TextsOf(pre))>> >>)
       \o [j \in 1..Len(post) |->
             <<IF IsText(post[j]) THEN "content" ELSE "reasoning", post[j].text>>]

\* C4: once a streaming request has written SSE output, client.prompt is not
\* invoked again for it.
C4_NoPromptAfterOutput ==
    [][\A r \in Reqs :
          (stream[r] /\ out[r] # <<>>) => prompts'[r] = prompts[r]]_vars

\* C5: once a non-empty agent text has arrived, the reasoning and content
\* chunks of the attempt are: one reasoning chunk with the concatenation of
\* the thoughts before that text (if any), the content chunk, then one chunk
\* per later thought or text, in arrival order.
C5_BufferThenFlush ==
    \A r \in Reqs :
        (stream[r] /\ pc[r] = "prompting" /\ HasText(events[r]))
            => Deltas(AttemptWrites(r)) = ExpectedDeltas(events[r])

\* C6: a streaming call that completed has written every thought of its last
\* attempt, a still-buffered reasoning as one chunk right before the stop
\* chunk, exactly one stop chunk with an empty delta, and [DONE] last; after
\* [DONE] the response is never written again.
C6_StopThenDone ==
    /\ [](\A r \in Reqs :
            (stream[r] /\ pc[r] = "completed") =>
                LET W == out[r]
                    n == Len(W)
                    E == events[r]
                    T == TextsOf(SelectSeq(E, IsThought))
                    R == SelectSeq(AttemptWrites(r), IsReasoning)
                IN /\ n >= 2
                   /\ W[n].kind = "done"
                   /\ W[n - 1].kind = "stop" /\ W[n - 1].text = <<>>
                   /\ \A i \in 1..(n - 2) : W[i].kind \notin {"stop", "done"}
                   /\ Join([i \in 1..Len(R) |-> R[i].text]) = Join(T)
                   /\ (variant = "plugin" /\ ~HasText(E) /\ T # <<>>) =>
                          /\ n >= 3
                          /\ W[n - 2] = Chunk("reasoning", Join(T), "req")
                          /\ Len(R) = 1)
    /\ [][\A r \in Reqs :
            (out[r] # <<>> /\ Last(out[r]).kind = "done") => out'[r] = out[r]]_vars

\* C6 witness: the plugin build completed a stream whose two thoughts were
\* still buffered; they were written as one chunk before the stop chunk.
C6_Witness ==
    \E r \in Reqs :
        /\ stream[r] /\ pc[r] = "completed" /\ variant = "plugin"
        /\ Len(out[r]) >= 3
        /\ out[r][Len(out[r]) - 2] = Chunk("reasoning", <<"a", "b">>, "req")

\* C36: at every point of a streaming attempt, and once the call completed,
\* the reasoning deltas written by the attempt, followed by what is still
\* buffered, concatenate to the non-empty thought texts received in arrival
\* order, and the content deltas concatenate to the non-empty agent texts
\* received; a completed call has nothing left in the buffer.
C36_NothingDroppedOrDuplicated ==
    \A r \in Reqs :
        (stream[r] /\ pc[r] \in {"prompting", "completed"}) =>
            LET W == AttemptWrites(r)
                E == events[r]
                R == SelectSeq(W, IsReasoning)
                Cn == SelectSeq(W, LAMBDA ch : ch.kind = "content")
                buffered == IF pc[r] = "prompting"
                            THEN Join(trans[r].reasoningBuffer) ELSE <<>>
            IN /\ Join([i \in 1..Len(R) |-> R[i].text]) \o buffered
                     = Join(TextsOf(SelectSeq(E, IsThought)))
               /\ Join([i \in 1..Len(Cn) |-> Cn[i].text])
                     = Join(TextsOf(SelectSeq(E, IsText)))

\* C36 witness: the plugin build completed a stream that received a thought,
\* a text and a late thought, and wrote the three deltas in that order.
C36_Witness ==
    \E r \in Reqs :
        /\ stream[r] /\ pc[r] = "completed" /\ variant = "plugin"
        /\ Deltas(AttemptWrites(r))
              = << <<"reasoning", <<"a">> >>, <<"content", <<"c">> >>,
                   <<"reasoning", <<"b">> >> >>

\* C37: a creation that fails inside getAuggieClient gives its slot back and
\* touches nothing else. creating of a pool is never negative and, while the
\* process runs, counts exactly the creations in flight on that pool object;
\* the step in which a
\* creation fails lowers creating by one (the pool object of a creation that
\* outlived its pool table is no longer in the table, which stays as it
\* is), leaves available and inUse as they are, and the error leaves the call
\* function: withRetry sleeps before another attempt or the handler answers
\* with the error.
C37_CreationSlotGivenBack ==
    /\ [](\A k \in Keys :
            /\ pools[k].creating >= 0
            /\ exited \/ pools[k].creating =
                  Cardinality({r \in Reqs : /\ pc[r] = "creating"
                                            /\ key[r] = k /\ ~orphan[r]}))
    /\ [][\A r \in Reqs :
            (pc[r] = "creating" /\ pc'[r] \notin {"creating", "prompting"}) =>
                /\ pc'[r] \in {"sleeping", "failed"}
                /\ held'[r] = NoClient
                /\ created' = created
                /\ pools'[key[r]].available = pools[key[r]].available
                /\ pools'[key[r]].inUse = pools[key[r]].inUse
                /\ pools'[key[r]].creating =
                      IF orphan[r] THEN pools[key[r]].creating
                      ELSE pools[key[r]].creating - 1
                /\ \A k \in Keys \ {key[r]} : pools'[k] = pools[k]]_vars

\* C37 witness: on an empty pool, a request whose creation failed sleeps
\* before its retry while another creation on the same pool is in flight, and
\* creating is 1 again.
C37_Witness ==
    \E r1, r2 \in Reqs :
        /\ r1 # r2 /\ pinned = {} /\ key[r1] = key[r2]
        /\ pc[r1] = "sleeping" /\ prompts[r1] = 0
        /\ pc[r2] = "creating" /\ ~orphan[r2]
        /\ pools[key[r1]].creating = 1 /\ pools[key[r1]].inUse = {}

\* ------------------------------------------------- claims on client close
\* C7: a discarded client has been closed exactly once and is in no pool.
C7_DiscardClosesOnce ==
    \A c \in discarded :
        /\ closeCount[c] = 1
        /\ \A k \in Keys : c \notin Pooled(k)

\* C8: every created client is closed at most once, and exactly once when
\* the pool has been shut down and no request uses the client any more.
C8_ClosedExactlyOnce ==
    \A c \in created :
        /\ closeCount[c] <= 1
        /\ exited => closeCount[c] = 1
        /\ (closed /\ \A r \in Reqs : held[r] # c) => closeCount[c] = 1

\* C9: an overflow client is in no pool, and it is closed once the request
\* that used it has ended.
C9_OverflowClosedAfterUse ==
    \A c \in overflow :
        /\ \A k \in Keys : c \notin Pooled(k)
        /\ (\A r \in Reqs : held[r] # c) => closeCount[c] = 1

\* ------------------------------------------------ claims on withRetry
\* C11: a withRetry call that ended by throwing a retryable error (so every
\* call of the operation failed with a retryable error) has called the
\* operation maxRetries + 1 times, has slept maxRetries times, and throws
\* the error of the last call.
C11_RetriesExhausted ==
    (retryRun.state = "thrown" /\ isRetryableError(variant, retryRun.thrown))
        => /\ retryRun.calls = maxRetries(variant) + 1
           /\ retryRun.sleeps = maxRetries(variant)
           /\ retryRun.thrown = retryRun.last

\* C11 witness: the standalone build gave up after its 31st call.
C11_Witness ==
    /\ variant = "standalone"
    /\ retryRun.state = "thrown" /\ isRetryableError(variant, retryRun.thrown)
    /\ retryRun.calls = 31

\* C12: when a call of the operation fails with an error the classifier calls
\* non-retryable, withRetry throws that error in the same step without a
\* sleep, and after a throw it neither calls nor sleeps again.
C12_NonRetryableRethrown ==
    /\ [][(/\ retryRun.state = "calling"
           /\ retryRun'.calls = retryRun.calls + 1
           /\ retryRun'.state # "returned"
           /\ ~isRetryableError(variant, retryRun'.last))
          => (/\ retryRun'.state = "thrown"
              /\ retryRun'.thrown = retryRun'.last
              /\ retryRun'.sleeps = retryRun.sleeps)]_vars
    /\ [][retryRun.state = "thrown" => retryRun' = retryRun]_vars

\* C12 witness: a non-retryable error was rethrown on the third attempt.
C12_Witness ==
    /\ retryRun.state = "thrown"
    /\ ~isRetryableError(variant, retryRun.thrown)
    /\ retryRun.attempt = 2 /\ retryRun.calls = 3 /\ retryRun.sleeps = 2

\* ------------------------------------------------ claims on the classifiers
\* The taxonomy kind of an envelope of createOpenAIError.
KindOf(env) ==
    CASE env.label = "Context length exceeded" -> "ContextTooLong"
      [] env.label = "Rate limit exceeded" -> "RateLimited"
      [] env.label = "SDK session error" -> "SessionFault"
      [] env.label = "Server error" -> "Transient"
      [] env.label = "Authentication failed" -> "AuthFailure"
      [] env.label = "Invalid model" -> "ModelNotFound"
      [] env.label = "Request timeout" -> "RequestTimeout"
      [] env.label = "Connection error" -> "ConnectionError"
      [] OTHER -> "Generic"

\* C13: an error whose message matches a context-length pattern is never
\* retryable, whatever its status code and whatever else its message matches.
C13_ContextNeverRetryable ==
    (classified.stage = "done" /\ isContextLengthError(classified.err))
        => ~classified.retryable

\* C14: in the builds with createOpenAIError, an error is retryable exactly
\* when its kind is RateLimited, SessionFault or Transient.
C14_RetryableIffKind ==
    (classified.stage = "done" /\ variant # "plugin")
        => (classified.retryable <=>
               KindOf(classified.envelope)
                   \in {"RateLimited", "SessionFault", "Transient"})

\* C14 witness: a timeout message, which also fits the RequestTimeout text,
\* was classified Transient and retryable.
C14_Witness ==
    /\ classified.stage = "done" /\ variant # "plugin"
    /\ "timeout" \in classified.err.msg
    /\ classified.retryable
    /\ KindOf(classified.envelope) = "Transient"

\* ---------------------------------------------------------------- C19
\* The writes of a response that are completion chunks (they carry an id);
\* the error envelope, the keepalive comment and 'data: [DONE]' carry none.
IsDataChunk(ch) == ch.kind \in {"content", "reasoning", "tool_calls", "plan",
                                "available_commands", "current_mode", "stop"}

\* C19: every chunk written in one streaming response (content, reasoning,
\* any other data chunk and the final stop chunk) carries the same id: no
\* chunk has a freshly generated id when the response has more than one chunk.
C19_SameChunkId ==
    \A r \in Reqs : \A i, j \in 1..Len(out[r]) :
        (i # j /\ IsDataChunk(out[r][i]) /\ IsDataChunk(out[r][j]))
            => (out[r][i].id = out[r][j].id /\ out[r][i].id # "rand")

\* ---------------------------------------------------------------- C15
\* C15: in the builds that race client.prompt against the abort signal, once
\* the signal has fired while a prompt is in flight, the next step of the
\* request fails it with 'Request aborted' (client discarded, no retry, no
\* success output), and the later settlement of client.prompt changes neither
\* the response, nor the pools, nor the metrics.
C15_AbortWinsRace ==
    [][\A r \in Reqs :
         /\ (/\ variant \in {"standalone", "plugin"}
             /\ pc[r] = "prompting" /\ aborted[r]
             /\ <<pc[r], out[r], resp[r], events[r], held[r]>>'
                    # <<pc[r], out[r], resp[r], events[r], held[r]>>)
            => /\ pc'[r] = "failed"
               /\ pending'[r] = "unsettled"
               /\ held[r] \in discarded' /\ held[r] \notin Pooled(key[r])'
               /\ resp'[r] = IF stream[r] THEN resp[r]
                             ELSE errorResponse(variant, ErrAborted)
               /\ \A i \in (Len(out[r]) + 1)..Len(out'[r]) :
                     out'[r][i].kind \in {"reasoning", "error"}
         /\ (pending[r] = "unsettled" /\ pending'[r] = "settled")
            => UNCHANGED <<pc, out, resp, response, pools, closeCount, created,
                           metrics, held, histVars>>]_vars

\* A streaming request that was aborted after output had been written, and
\* whose client.prompt settled afterwards.
C15_Witness ==
    \E r \in Reqs : /\ pending[r] = "settled" /\ pc[r] = "failed"
                    /\ stream[r] /\ delivered[r] > 0
                    /\ discarded # {}

\* ---------------------------------------------------------------- C16
\* The step in which the running prompt of r resolves with rsp.
ResolvesWith(r, rsp) == response[r] = NoResponse /\ response'[r] = rsp

\* What a rejected call does with error e: no completion body and no stop
\* chunk, the client discarded exactly on a session fault, and a retry
\* exactly when withRetry wraps the call and finds e retryable.
TreatedAsRejected(r, e) ==
    /\ pc'[r] \in {"failed", "sleeping"}
    /\ resp'[r] # Completion
    /\ \A i \in (Len(out[r]) + 1)..Len(out'[r]) :
          out'[r][i].kind \notin {"stop", "done", "content"}
    /\ (held[r] \in discarded') = isSessionError(variant, e)
    /\ (held[r] \in Pooled(key[r])') = ~isSessionError(variant, e)
    /\ (pc'[r] = "sleeping")
          = (/\ ~stream[r] \/ variant # "standalone"
             /\ isRetryableError(variant, e)
             /\ attempt[r] < maxRetries(variant))

\* C16: whenever prompt() resolves with a string that parses as JSON carrying
\* an error field, the attempt is treated exactly like a rejected call: no
\* success body or stop chunk, the same classification, the same rule for
\* the client.
C16_ErrorPayloadIsFailure ==
    [][\A r \in Reqs : \A rsp \in Responses :
         (ResolvesWith(r, rsp) /\ rsp.shape = "object" /\ rsp.error # "absent")
            => TreatedAsRejected(r, [msg |-> Contained(rsp.msg), statusCode |-> 0,
                                     name |-> "Error"])]_vars

\* ---------------------------------------------------------------- C17
\* The bodies the validation of build v rejects: every build rejects absent,
\* non-array and empty messages; the standalone and legacy builds also reject
\* malformed messages, a non-string model and a non-boolean stream.
RejectedByValidation(v, b) ==
    /\ b.parse = "json"
    /\ \/ b.messages \in {"absent", "notArray", "empty"}
       \/ v # "plugin" /\ (b.messages \notin {"ok", "nullElement"}
                             \/ b.model = "number" \/ b.stream = "string")

\* C17: a request rejected by validation is answered with 400 and an
\* invalid_request_error body, whatever its stream field, without SSE output,
\* pool acquisition, client creation, upstream prompt or retry: the step that
\* reads the body leaves every pool unchanged, and so does the request after.
C17_ValidationRejects ==
    /\ [](\A r \in Reqs :
            (pc[r] \notin {"idle", "parsing", "rejected"}
               /\ RejectedByValidation(variant, body[r]))
            => /\ pc[r] = "invalid"
               /\ resp[r].status = 400 /\ resp[r].type = "invalid_request_error"
               /\ out[r] = <<>> /\ prompts[r] = 0 /\ attempt[r] = 0
               /\ held[r] = NoClient)
    /\ [][\A r \in Reqs :
            (RejectedByValidation(variant, body'[r]) /\ pc'[r] # pc[r])
            => UNCHANGED <<pools, created, closeCount>>]_vars

\* A streaming request with messages: [] was answered with 400.
C17_Witness ==
    \E r \in Reqs : /\ pc[r] = "invalid" /\ stream[r]
                    /\ body[r].messages = "empty" /\ body[r].stream = "true"
                    /\ resp[r].status = 400
                    /\ \A k \in Keys : pools[k] = NoPool

\* ---------------------------------------------------------------- C18
NumIn(S) == Cardinality({r \in Reqs : pc[r] \in S})

\* C18: in the builds that keep metrics, every request is counted exactly once
\* at its terminal transition, on every path: the step that ends it takes one
\* from activeRequests (a request rejected at entry is counted in and out in
\* the same step) and adds one to exactly one of successfulRequests and
\* failedRequests, no other step touches these two, and so the counters always
\* equal the numbers of active, completed and otherwise ended requests.
C18_MetricsOncePerRequest ==
    /\ [](variant # "plugin" =>
            /\ metrics.activeRequests = Cardinality({r \in Reqs : Active(r)})
            /\ metrics.successfulRequests = NumIn({"completed"})
            /\ metrics.failedRequests = NumIn(Terminal \ {"completed"})
            /\ metrics.totalRequests = NumIn(Terminal)
                                         + Cardinality({r \in Reqs : Active(r)}))
    /\ [][variant # "plugin" =>
            \A r \in Reqs :
               /\ (pc[r] \notin Terminal /\ pc'[r] \in Terminal)
                  => /\ metrics'.activeRequests
                           = metrics.activeRequests - (IF pc[r] = "idle" THEN 0 ELSE 1)
                     /\ metrics'.successfulRequests + metrics'.failedRequests
                           = metrics.successfulRequests + metrics.failedRequests + 1
                     /\ metrics'.successfulRequests
                           = metrics.successfulRequests
                               + (IF pc'[r] = "completed" THEN 1 ELSE 0)
               /\ (pc[r] \in Terminal => pc'[r] = pc[r])
               /\ ((\A q \in Reqs : pc[q] \in Terminal <=> pc'[q] \in Terminal)
                     => /\ metrics'.successfulRequests = metrics.successfulRequests
                        /\ metrics'.failedRequests = metrics.failedRequests)]_vars

\* A streaming request failed after output had been written and was counted
\* as failed; nothing is left active.
C18_Witness ==
    /\ variant # "plugin"
    /\ \E r \in Reqs : pc[r] = "failed" /\ stream[r] /\ delivered[r] > 0
    /\ metrics = [totalRequests |-> 1, activeRequests |-> 0,
                  successfulRequests |-> 0, failedRequests |-> 1]

\* ---------------------------------------------------------------- C20
IsPrefix(s, t) == Len(s) <= Len(t) /\ \A i \in 1..Len(s) : t[i] = s[i]

\* A request that failed after its SSE headers were sent and client.prompt
\* was called.
FailedStream(r) ==
    pc[r] = "failed" /\ stream[r] /\ resp[r] = SseHeaders /\ prompts[r] > 0

C21_NoToolCallChunks ==
    \A r \in Reqs : \A i \in 1..Len(out[r]) :
        out[r][i].kind \notin {"tool_calls", "plan", "available_commands",
                               "current_mode"}

\* ---------------------------------------------------------------- C22
\* The position at which the id of entry i of L first appears.
FirstAt(L, i) == CHOOSE j \in 1..i :
                    /\ L[j].id = L[i].id
                    /\ \A k \in 1..(j - 1) : L[k].id # L[i].id

\* C22: the tool-call indices of one response do not depend on other requests:
\* within the response of r the distinct tool-call ids get 0, 1, 2, ... in
\* order of first appearance, and an id keeps its index.
C22_ToolIndicesPerRequest ==
    \A r \in Reqs : \A i \in 1..Len(toolLog[r]) :
        toolLog[r][i].index
           = Cardinality({toolLog[r][j].id : j \in 1..(FirstAt(toolLog[r], i) - 1)})

\* ---------------------------------------------------------------- C23
\* C23: the shutdown step (gracefulShutdown, or the close() of the embedded
\* server) closes every client in available and in inUse of every pool key
\* and leaves the pool table without a key.
C23_ShutdownClosesAll ==
    [][(exited' # exited \/ closed' # closed)
          => /\ \A k \in Keys : pools'[k] = NoPool
             /\ \A k \in Keys : \A c \in Pooled(k) : closeCount'[c] > 0]_vars

\* ---------------------------------------------------------------- C24
\* The clients checked out on behalf of requests that have not finished.
HeldByUnfinished == {held[r] : r \in {q \in Reqs : pc[q] \notin Terminal}} \ {NoClient}

\* C24: a finished request holds no client, and no client stays in inUse, nor
\* a slot in creating, on its behalf: inUse holds only clients of unfinished
\* requests (and of the requests that outlast the window), creating counts
\* only unfinished requests, and when every request has finished inUse holds
\* no client of theirs and creating is 0.
C24_FinishedHoldsNothing ==
    /\ \A r \in Reqs : pc[r] \in Terminal => held[r] = NoClient
    /\ \A k \in Keys :
          /\ pools[k].inUse \subseteq pinned \cup HeldByUnfinished
          /\ pools[k].creating
                <= Cardinality({r \in Reqs : pc[r] = "creating" /\ key[r] = k})
    /\ (\A r \in Reqs : pc[r] \in Terminal)
          => \A k \in Keys : pools[k].inUse \subseteq pinned /\ pools[k].creating = 0

\* Both requests have finished, one of them after a retry that acquired a
\* second time, and its client is back in available.
C24_Witness ==
    /\ \A r \in Reqs : pc[r] \in Terminal
    /\ \E r \in Reqs : pc[r] = "completed" /\ attempt[r] = 1 /\ prompts[r] = 2
    /\ \E r \in Reqs : pc[r] = "failed" /\ prompts[r] > 0
    /\ \E k \in Keys : pools[k].exists /\ Len(pools[k].available) > 0
                       /\ pools[k].inUse \subseteq pinned

\* ---------------------------------------------------------------- C25
\* The kind of an error by first match over the patterns of the taxonomy.
ExpectedKind(e) == KindOf(createOpenAIError("standalone", e))

\* C25: the HTTP status of a failed non-streaming request is fixed by the
\* error kind: 400 for ContextTooLong, 429 for RateLimited, 401 for
\* AuthFailure, 404 for ModelNotFound, 500 for Transient, SessionFault and
\* Generic.
C25_StatusByKind ==
    classified.stage = "done"
       => LET kind == ExpectedKind(classified.err) IN
          /\ kind = "ContextTooLong" => classified.status = 400
          /\ kind = "RateLimited" => classified.status = 429
          /\ kind = "AuthFailure" => classified.status = 401
          /\ kind = "ModelNotFound" => classified.status = 404
          /\ kind \in {"Transient", "SessionFault", "Generic"}
                => classified.status = 500


\* The kinds of the taxonomy in priority order, and whether an error matches one.
KindOrder ==
    <<"ContextTooLong", "RateLimited", "SessionFault", "Transient",
      "AuthFailure", "ModelNotFound", "RequestTimeout">>
KindOrderWithConnection == Append(KindOrder, "ConnectionError")
Matches(kind, v, e) ==
    CASE kind = "ContextTooLong" -> isContextLengthError(e)
      [] kind = "RateLimited" -> isRateLimitError(e)
      [] kind = "SessionFault" -> isSessionError(v, e)
      [] kind = "Transient" -> isTransientError(v, e)
      [] kind = "AuthFailure" -> Has(e, {"unauthorized", "invalid api key"})
      [] kind = "ModelNotFound" ->
            Has(e, {"model"}) /\ Has(e, {"not found", "invalid"})
      [] kind = "RequestTimeout" ->
            Has(e, {"timeout", "timed out"}) \/ e.name = "AbortError"
      [] kind = "ConnectionError" ->
            Has(e, {"econnrefused", "enotfound", "network"})
      [] OTHER -> FALSE
FirstKind(order, v, e) ==
    LET hits == {i \in 1..Len(order) : Matches(order[i], v, e)} IN
    IF hits = {} THEN "Generic"
    ELSE order[CHOOSE i \in hits : \A j \in hits : i <= j]
TypeCodeOf(kind) ==
    CASE kind = "ContextTooLong" ->
            <<"invalid_request_error", "context_length_exceeded">>
      [] kind = "RateLimited" -> <<"rate_limit_error", "rate_limit_exceeded">>
      [] kind = "SessionFault" -> <<"server_error", "connection_error">>
      [] kind = "Transient" -> <<"server_error", "server_error">>
      [] kind = "AuthFailure" -> <<"invalid_request_error", "invalid_api_key">>
      [] kind = "ModelNotFound" -> <<"invalid_request_error", "model_not_found">>
      [] kind = "RequestTimeout" -> <<"server_error", "request_timeout">>
      [] kind = "ConnectionError" -> <<"server_error", "connection_error">>
      [] OTHER -> <<"api_error", "null">>
EnvelopeFollows(order) ==
    (classified.stage = "done" /\ variant # "plugin")
       => <<classified.envelope.type, classified.envelope.code>>
             = TypeCodeOf(FirstKind(order, variant, classified.err))

\* C26: the envelope (type, code) of a classified error is that of the first
\* kind it matches in the order ContextTooLong, RateLimited, SessionFault,
\* Transient, AuthFailure, ModelNotFound, RequestTimeout, and an error that
\* matches none of them is Generic (api_error, null code).
C26_FirstMatchOrder == EnvelopeFollows(KindOrder)

\* C26 (amended): the order has a ninth kind between RequestTimeout and
\* Generic, a connection error ("econnrefused", "enotfound", "network") with
\* the envelope (server_error, connection_error); with it the envelope is
\* that of the first matching kind, and Generic when there is none.
C26_FirstMatchWithConnection == EnvelopeFollows(KindOrderWithConnection)

C26_Witness ==
    /\ classified.stage = "done"
    /\ variant = "standalone"
    /\ isContextLengthError(classified.err)
    /\ isRateLimitError(classified.err)
    /\ classified.envelope.code = "context_length_exceeded"


\* C27: every error response of a chat-completion request (validation and
\* shutdown rejections included) carries a type, a code and a suggestion, and
\* the parameter name when validation found a request parameter at fault.
C27_ErrorResponseFields ==
    \A r \in Reqs :
       resp[r].status >= 400
          => /\ resp[r].type # "none"
             /\ resp[r].code # "none"
             /\ resp[r].suggestion
             /\ pc[r] = "invalid" => resp[r].param # "none"


\* A body as the statement describes the accepted ones.
WellFormed(b) ==
    /\ b.messages = "ok"
    /\ b.model \in {"absent", "string"}
    /\ b.stream \in {"absent", "true", "false"}

\* C28: validateChatCompletionRequest (standalone and legacy builds) accepts
\* a body exactly when its messages are a non-empty array of elements with a
\* recognised role and string content, its model (if present) a string and
\* its stream (if present) a boolean: a request whose body was read is
\* rejected with 400 exactly when its body is not of that form.
C28_AcceptsExactlyWellFormed ==
    \A r \in Reqs :
       (variant # "plugin" /\ body[r].parse = "json")
          => /\ validateChatCompletionRequest(variant, body[r]).valid
                   = WellFormed(body[r])
             /\ (pc[r] = "invalid") = ~WellFormed(body[r])


\* C30: for every attempt n, calculateRetryDelay(n) is an integer d with
\* floor(b * (1 - jitterFactor)) <= d <= b * (1 + jitterFactor), where
\* b = min(initialDelayMs * backoffMultiplier^n, maxDelayMs); d never exceeds
\* maxDelayMs * (1 + jitterFactor), and b does not decrease as n grows.
C30_DelayWithinJitter ==
    delay.stage = "returned"
       => LET n == delay.attempt
              d == delay.ms
              b == Min(initialDelayMs(variant) * Pow(backoffMultiplier, n),
                       maxDelayMs(variant))
          IN /\ d \in Int
             /\ (b * (jitterFactorDen - jitterFactorNum)) \div jitterFactorDen <= d
             /\ d * jitterFactorDen <= b * (jitterFactorDen + jitterFactorNum)
             /\ d * jitterFactorDen
                   <= maxDelayMs(variant) * (jitterFactorDen + jitterFactorNum)
             /\ \A m \in 0..n : baseDelay(variant, m) <= baseDelay(variant, n)

\* A delay was computed for an attempt whose uncapped backoff exceeds
\* maxDelayMs, with the largest jitter.
C30_Witness ==
    /\ delay.stage = "returned"
    /\ initialDelayMs(variant) * Pow(backoffMultiplier, delay.attempt)
          > maxDelayMs(variant)
    /\ delay.random = RandomSteps - 1
    /\ delay.ms > maxDelayMs(variant)


\* Starts of startEmbeddedServer in progress.
PendingStarts == {p \in Starts : loader.promise[p] = "pending"}

\* C31: concurrent ensureServer calls never have more than one
\* startEmbeddedServer call in progress: a caller that gets past the health
\* check while a start is in progress waits for that start (also when the
\* callers found a recorded server dead), and a failed start clears the lock.
C31_SingleStart ==
    /\ [](Cardinality(PendingStarts) <= 1)
    /\ [][\A c \in Callers :
            (loader.cpc[c] # "waiting" /\ loader'.cpc[c] = "waiting"
               /\ PendingStarts # {})
            => loader'.awaited[c] \in PendingStarts]_vars
    /\ [][\A p \in Starts :
            (loader.promise[p] = "pending" /\ loader'.promise[p] = "rejected")
            => loader'.serverStarting = 0]_vars


\* C32: once the abort signal of a request has fired, no client.prompt call
\* is started for it and it acquires no further handle (standalone build): a
\* step taken with the signal set leaves the number of prompt calls as it is,
\* reserves no creation slot and checks no handle out.
C32_NoPromptAfterAbort ==
    [][\A r \in Reqs :
         (variant = "standalone" /\ aborted[r])
            => /\ prompts'[r] = prompts[r]
               /\ held'[r] \in {held[r], NoClient}
               /\ pc'[r] \in {"creating", "tempCreating"} => pc'[r] = pc[r]]_vars


\* C33: every request in flight has its own entry in activeRequests from its
\* registration until its own cleanup, so the forced abort at the shutdown
\* timeout reaches every request still in flight, also when two concurrent
\* requests carry the same X-Request-ID.
C33_EveryActiveRequestRegistered ==
    /\ [](\A r \in Reqs :
            (variant # "plugin" /\ Active(r)) => activeRequests[requestId(r)] = r)
    /\ [][exited' # exited
            => \A r \in Reqs : Active(r) => aborted'[r]]_vars


\* C34: in every reachable state totalRequests = successfulRequests +
\* failedRequests + activeRequests and activeRequests >= 0, and no step
\* decreases totalRequests, successfulRequests or failedRequests.
C34_MetricsBalance ==
    /\ [](/\ metrics.totalRequests
               = metrics.successfulRequests + metrics.failedRequests
                   + metrics.activeRequests
          /\ metrics.activeRequests >= 0)
    /\ [][/\ metrics'.totalRequests >= metrics.totalRequests
          /\ metrics'.successfulRequests >= metrics.successfulRequests
          /\ metrics'.failedRequests >= metrics.failedRequests]_vars

\* Of two requests, one has completed, the other is in flight.
C34_Witness ==
    /\ metrics = [totalRequests |-> 2, activeRequests |-> 1,
                  successfulRequests |-> 1, failedRequests |-> 0]
    /\ \E r \in Reqs : pc[r] = "prompting"


\* C35: when a streaming call ends, the stream callback is removed from the
\* client before the client is released or discarded: no client in available
\* has a callback installed, and a callback installed on a client belongs to
\* the request whose prompt runs on that client now, so a later prompt on a
\* reused client never writes to an earlier request's response.
C35_SinkUninstalled ==
    /\ [](/\ \A k \in Keys : \A c \in Pooled(k) :
                c \in Range(pools[k].available) => sink[c] = 0
          /\ \A c \in Clients :
                sink[c] # 0 => /\ held[sink[c]] = c
                               /\ pc[sink[c]] = "prompting"
                               /\ stream[sink[c]])
    /\ [][\A r \in Reqs :
            (held[r] # NoClient /\ held'[r] = NoClient) => sink'[held[r]] = 0]_vars

\* A streaming request completed, and a second streaming request prompts on
\* the client the first one created, with its own callback.
C35_Witness ==
    \E r1, r2 \in Reqs :
       /\ r1 # r2 /\ stream[r1] /\ pc[r1] = "completed"
       /\ stream[r2] /\ pc[r2] = "prompting"
       /\ held[r2] = ClientOf(r1, 0) /\ sink[held[r2]] = r2

\* C38: in the standalone build, while the process runs, every request whose
\* handler has started eventually reaches a terminal outcome, also when
\* client.prompt never settles.
C38_EveryRequestTerminates ==
    \A r \in Reqs :
        (variant = "standalone" /\ pc[r] = "parsing")
            ~> (pc[r] \in Terminal \/ exited)


\* C39: in the standalone and legacy builds, the step that starts a handler
\* after gracefulShutdown has begun answers 503, counts the request once as
\* received and once as failed and leaves the pools alone; the rejected
\* request stays rejected, has called client.prompt never, holds no client
\* and has had none created; a shutdown signal that arrives while a shutdown
\* is in progress changes nothing, so gracefulShutdown runs at most once.
C39_RejectedDuringShutdown ==
    /\ [](/\ shutdownRuns = (IF isShuttingDown THEN 1 ELSE 0)
          /\ \A r \in Reqs :
                pc[r] = "rejected" =>
                    /\ resp[r].status = 503
                    /\ prompts[r] = 0 /\ held[r] = NoClient
                    /\ \A c \in created : \A n \in 0..AttemptCap :
                          c # ClientOf(r, n))
    /\ [][/\ \A r \in Reqs :
              /\ (variant # "plugin" /\ isShuttingDown
                     /\ pc[r] = "idle" /\ pc'[r] # "idle")
                  => /\ pc'[r] = "rejected"
                     /\ resp'[r] = ShuttingDown
                     /\ metrics'.totalRequests = metrics.totalRequests + 1
                     /\ metrics'.failedRequests = metrics.failedRequests + 1
                     /\ metrics'.successfulRequests = metrics.successfulRequests
                     /\ metrics'.activeRequests = metrics.activeRequests
                     /\ UNCHANGED <<poolVars, prompts, held>>
              /\ pc[r] = "rejected" => pc'[r] = "rejected"
          /\ isShuttingDown => isShuttingDown']_vars

\* C39 witness: a request was rejected with 503 during a shutdown while the
\* other request, started before the shutdown, is still with the upstream.
C39_Witness ==
    \E r1, r2 \in Reqs :
        /\ isShuttingDown /\ ~exited /\ shutdownRuns = 1
        /\ pc[r1] = "rejected" /\ resp[r1] = ShuttingDown
        /\ metrics.failedRequests = 1 /\ metrics.totalRequests = 2
        /\ pc[r2] = "prompting"


\* ---------------------------------------------------------------- C40
\* The first rule, in the order role missing, role unrecognised, content
\* missing, content not a string, that an element of messages violates: its
\* code and the field it is about, or "none". An element that is no object
\* has no role.
ElementViolation(m) ==
    IF m.null \/ m.role = "absent" THEN <<"missing_required_parameter", "role">>
    ELSE IF m.role \in {"number", "unknown"} THEN <<"invalid_value", "role">>
    ELSE IF m.content \in {"absent", "null"}
    THEN <<"missing_required_parameter", "content">>
    ELSE IF m.content = "number" THEN <<"invalid_type", "content">>
    ELSE <<"none", "none">>

\* What the rule order asks the validation to report for a body.
ExpectedReport(b) ==
    LET Rep(code, field, index, sub) ==
            [valid |-> code = "none", code |-> code,
             param |-> [field |-> field, index |-> index, sub |-> sub]]
        bad == {i \in 1..Len(b.elements) :
                    ElementViolation(b.elements[i])[1] # "none"}
    IN IF b.messages = "absent"
       THEN Rep("missing_required_parameter", "messages", -1, "none")
       ELSE IF b.messages = "string" THEN Rep("invalid_type", "messages", -1, "none")
       ELSE IF b.elements = <<>> THEN Rep("invalid_value", "messages", -1, "none")
       ELSE IF bad # {}
       THEN LET i == CHOOSE j \in bad : \A k \in bad : j <= k
                v == ElementViolation(b.elements[i])
            IN Rep(v[1], "messages", i - 1, v[2])
       ELSE IF b.model = "number" THEN Rep("invalid_type", "model", -1, "none")
       ELSE IF b.stream = "string" THEN Rep("invalid_type", "stream", -1, "none")
       ELSE Rep("none", "none", -1, "none")

\* C40: validateChatCompletionRequest reports the first violated rule of the
\* order messages missing, not an array, empty, then per message in index
\* order role missing, role unrecognised, content missing, content not a
\* string, then model type, then stream type, with the param of the offending
\* element, and reports nothing when no rule is violated.
C40_FirstViolatedRule ==
    checked.stage = "returned" => checked.result = ExpectedReport(checked.body)

=============================================================================
